---------------------------- MODULE Spec2Model ----------------------------
(***************************************************************************)
(* A model of the heterogeneous serialization layer of the plotly crate:   *)
(*   private/mod.rs  TruthyEnum, NumOrString, is_valid_color_array, ...    *)
(*   scatter.rs, traces/mesh3d.rs, traces/surface.rs  the trace builders   *)
(*                                                                         *)
(* Text is a sequence of one-character strings, so that the quote filter   *)
(* of TruthyEnum acts on characters.  A JSON value is a record             *)
(* [t |-> kind, v |-> payload]; a JSON object is the sequence of its       *)
(* <<key, value>> members in the order the serializer writes them.         *)
(***************************************************************************)
EXTENDS Integers, Sequences, FiniteSets, TLC

VARIABLES
    e,          \* TruthyEnum: the wrapped value (TruthyEnum.e)
    emitted,    \* TruthyEnum: what serialize handed to the serializer
    a,          \* is_valid_color_array: the array argument
    valid,      \* is_valid_color_array: the returned bool, once called
    vec,        \* the vector handed to a vector conversion: [kind, items]
    converted,  \* the conversion called on vec and its result: [by, result]
    source,     \* NumOrString: the value to_num_or_string is called on
    wrapper,    \* NumOrString: the NumOrStringWrapper returned
    scalar,     \* NumOrString: the JSON value the wrapper serialized to
    given,      \* the arguments the trace's constructor was called with
    trace,      \* the trace under construction: [ty, f], f the struct's fields
    chain,      \* the setter calls made on the trace so far, in order: [fn, arg]
    out,        \* what the to_json calls made since the last setter call returned
    panicked,   \* TRUE once a call on the trace has panicked
    op,         \* bindings: the render operation called (new_plot or react)
    divId,      \* bindings: the id argument (the id of an HTML div)
    plotJson,   \* bindings: the text plot.to_json() returns
    pc,         \* bindings: where the operation stands
    calls,      \* bindings: the external calls made so far: [entry, id, obj]
    outcome,    \* bindings: how the awaited external call settled
    panic       \* bindings: the message of the expect that panicked

truthyVars == <<e, emitted>>
colorVars  == <<a, valid, vec, converted>>
numVars    == <<source, wrapper, scalar>>
traceVars  == <<given, trace, chain, out, panicked>>
bindingVars == <<op, divId, plotJson, pc, calls, outcome, panic>>
vars       == <<e, emitted, a, valid, vec, converted, source, wrapper, scalar,
                given, trace, chain, out, panicked,
                op, divId, plotJson, pc, calls, outcome, panic>>

(***************************************************************************)
(* Bounds of the model.                                                    *)
(***************************************************************************)
MaxTextLen  == 3    \* longest text enumerated over Alphabet
MaxArrayLen == 3    \* longest color array enumerated
MaxChain    == 2    \* longest chain of setter calls made on one trace
MaxSerialize == 2   \* most to_json calls made between two setter calls
MaxColorChain == 3  \* longest chain of color setter calls made on one Mesh3D
MaxRenders  == 2    \* most render operations run on one plot

(***************************************************************************)
(* Text.                                                                   *)
(***************************************************************************)
Quote     == "\""
Backslash == "\\"
Alphabet  == {"a", "t", Quote, Backslash}

RECURSIVE SeqsUpTo(_, _)
SeqsUpTo(S, n) ==
    IF n = 0 THEN {<<>>}
    ELSE LET shorter == SeqsUpTo(S, n - 1)
         IN  shorter \cup {Append(s, c) : s \in {t \in shorter : Len(t) = n - 1}, c \in S}

TextTrue  == <<"t", "r", "u", "e">>
TextFalse == <<"f", "a", "l", "s", "e">>
\* The near misses of true/false, and texts that carry quote characters.
NearMissTexts ==
    { <<"T", "r", "u", "e">>, <<"T", "R", "U", "E">>, <<"F", "a", "l", "s", "e">>,
      <<" ", "t", "r", "u", "e">>, <<"t", "r", "u", "e", "e">> }
QuotedTexts ==
    { <<Quote, "t", "r", "u", "e", Quote>>, <<"t", "r", Quote, "u", "e">>,
      <<"l", "e", "g", "e", "n", "d", "o", "n", "l", "y">> }
Texts == SeqsUpTo(Alphabet, MaxTextLen) \cup {TextTrue, TextFalse}
            \cup NearMissTexts \cup QuotedTexts

(***************************************************************************)
(* JSON values.                                                            *)
(***************************************************************************)
NoValue   == [t |-> "none",   v |-> <<>>]
JBool(b)  == [t |-> "bool",   v |-> IF b THEN TextTrue ELSE TextFalse]
JStr(s)   == [t |-> "string", v |-> s]
JNull     == [t |-> "null",   v |-> <<>>]
JNum(n)   == [t |-> "number", v |-> n]
JObj(m)   == [t |-> "object", v |-> m]
JArr(s)   == [t |-> "array",  v |-> s]


(***************************************************************************)
(* TruthyEnum (private/mod.rs).  The wrapped value E is any serializable   *)
(* value: [kind, val] with kind "str" (a unit variant or a string, val its *)
(* text), "bool" (val the literal), "unit" (null), "num" (val the digits)  *)
(* or "struct" (a struct, a sequence or a data-carrying variant, val the   *)
(* JSON text that serde_json writes for it).                               *)
(***************************************************************************)
StrValue(s) == [kind |-> "str", val |-> s]
StrValues   == {StrValue(s) : s \in Texts}
BoolValues  == {[kind |-> "bool", val |-> TextTrue], [kind |-> "bool", val |-> TextFalse]}
UnitValues  == {[kind |-> "unit", val |-> <<>>]}
NumValues   == {[kind |-> "num", val |-> <<"0">>], [kind |-> "num", val |-> <<"1", "2">>],
                [kind |-> "num", val |-> <<"-", "1", ".", "5">>]}
StructValues ==
    {[kind |-> "struct", val |-> <<"{", Quote, "a", Quote, ":", "1", "}">>],
     [kind |-> "struct", val |-> <<"[", Quote, "t", "r", "u", "e", Quote, "]">>],
     [kind |-> "struct", val |-> <<"{", Quote, "t", Quote, ":", "t", "r", "u", "e", "}">>],
     [kind |-> "struct", val |-> <<"[", "]">>]}

\* serde_json's string escaping: a quote and a backslash are each written
\* behind a backslash, every other character of the alphabet as itself.
RECURSIVE escape(_)
escape(s) ==
    IF s = <<>> THEN <<>>
    ELSE (IF Head(s) \in {Quote, Backslash} THEN <<Backslash, Head(s)>> ELSE <<Head(s)>>)
            \o escape(Tail(s))

\* serde_json::to_string(&self.e): the JSON text of the wrapped value.
to_string(x) ==
    CASE x.kind = "str"  -> <<Quote>> \o escape(x.val) \o <<Quote>>
      [] x.kind = "bool" -> x.val
      [] x.kind = "unit" -> <<"n", "u", "l", "l">>
      [] x.kind = "num"  -> x.val
      [] x.kind = "struct" -> x.val

\* .chars().filter(|c| *c != '"').collect::<String>()
NotQuote(c)      == c # Quote
filter_quotes(s) == SelectSeq(s, NotQuote)

RECURSIVE to_lowercase(_)
to_lowercase(s) ==
    IF s = <<>> THEN <<>>
    ELSE <<CASE Head(s) = "T" -> "t" [] Head(s) = "R" -> "r" [] Head(s) = "U" -> "u"
             [] Head(s) = "E" -> "e" [] Head(s) = "F" -> "f" [] OTHER -> Head(s)>>
            \o to_lowercase(Tail(s))

\* A faulty variant: the JSON text is compared as it is, the quotes left in.
TruthyEnum_serialize_unfiltered(x) ==
    LET s == to_string(x)
    IN  IF s = TextTrue THEN JBool(TRUE)
        ELSE IF s = TextFalse THEN JBool(FALSE)
        ELSE JStr(s)

\* A faulty variant: the comparison with true/false ignores case.
TruthyEnum_serialize_caseless(x) ==
    LET s == filter_quotes(to_string(x))
    IN  IF to_lowercase(s) = TextTrue THEN JBool(TRUE)
        ELSE IF to_lowercase(s) = TextFalse THEN JBool(FALSE)
        ELSE JStr(s)

\* A faulty variant: only a wrapped text is filtered; any other value is
\* written as itself.
TruthyEnum_serialize_transparent(x) ==
    LET s == filter_quotes(to_string(x))
    IN  CASE x.kind = "num"    -> JNum(x.val)
          [] x.kind = "unit"   -> JNull
          [] x.kind = "struct" -> JObj(x.val)
          [] s = TextTrue      -> JBool(TRUE)
          [] s = TextFalse     -> JBool(FALSE)
          [] OTHER             -> JStr(s)

\* impl Serialize for TruthyEnum<E>: serialize_bool / serialize_str.
TruthyEnum_serialize(x) ==
    LET s == filter_quotes(to_string(x))
    IN  IF s = TextTrue THEN JBool(TRUE)
        ELSE IF s = TextFalse THEN JBool(FALSE)
        ELSE JStr(s)

TruthyInit ==
    /\ \/ e \in StrValues
       \/ e \in BoolValues
       \/ e \in UnitValues
       \/ e \in NumValues
       \/ e \in StructValues
    /\ emitted = NoValue
TruthyPark == e = [kind |-> "unit", val |-> <<>>] /\ emitted = NoValue

\* One call of serialize on the TruthyEnum holding e.
SerializeTruthyEnum ==
    /\ emitted.t = "none"
    /\ emitted' = TruthyEnum_serialize(e)
    /\ UNCHANGED e

(***************************************************************************)
(* Floats.  An f64 is modelled by its lexeme; NaN and the infinities are   *)
(* the values that are not finite.                                         *)
(***************************************************************************)
F64NaN    == <<"N", "a", "N">>
F64Inf    == <<"i", "n", "f">>
F64NegInf == <<"-", "i", "n", "f">>
F64Values == { <<"0", ".", "5">>, <<"-", "1", ".", "0">>, <<"1", "e", "3", "0", "0">>,
               F64NaN, F64Inf, F64NegInf }
is_finite(x) == x \notin {F64NaN, F64Inf, F64NegInf}

(***************************************************************************)
(* is_valid_color_array (private/mod.rs).  A ColorWrapper is F(f64) or     *)
(* S(String): [tag, val].                                                  *)
(***************************************************************************)
ColorF(n) == [tag |-> "F", val |-> n]
ColorS(s) == [tag |-> "S", val |-> s]
ColorWrappers == {ColorF(<<"0", ".", "5">>), ColorF(F64NaN), ColorS(<<"r", "e", "d">>), ColorS(<<>>)}
ColorArrays   == SeqsUpTo(ColorWrappers, MaxArrayLen)

\* for e in a.iter() { match e { F(n) => fv.push(*n), S(s) => sv.push(s.clone()) } }
RECURSIVE color_partition(_, _, _)
color_partition(rest, sv, fv) ==
    IF rest = <<>> THEN [sv |-> sv, fv |-> fv]
    ELSE IF Head(rest).tag = "F"
         THEN color_partition(Tail(rest), sv, Append(fv, Head(rest).val))
         ELSE color_partition(Tail(rest), Append(sv, Head(rest).val), fv)

\* A faulty variant: one kind of entry is enough.
is_valid_color_array_either(arr) ==
    LET r == color_partition(arr, <<>>, <<>>)
    IN  (r.sv # <<>>) \/ (r.fv # <<>>)

\* !sv.is_empty() && !fv.is_empty()
is_valid_color_array(arr) ==
    LET r == color_partition(arr, <<>>, <<>>)
    IN  (r.sv # <<>>) /\ (r.fv # <<>>)

NoVec == [kind |-> "none", items |-> <<>>]
NotConverted == [by |-> "none", result |-> <<>>]
ColorInit == a \in ColorArrays /\ valid = <<>> /\ vec = NoVec /\ converted = NotConverted
ColorPark == a = <<>> /\ valid = <<>> /\ vec = NoVec /\ converted = NotConverted

\* One call of is_valid_color_array(&a), on an array given as such or on
\* the array to_color_array returned.
CallIsValidColorArray ==
    /\ valid = <<>>
    /\ vec.kind = "none" \/ converted.by = "to_color_array"
    /\ valid' = <<is_valid_color_array(a)>>
    /\ UNCHANGED <<a, vec, converted>>

(***************************************************************************)
(* Integers.  A machine integer is the big-endian sequence of its 16-bit   *)
(* limbs in two's complement: an i32 has 2 limbs, an i64 and a u64 have 4, *)
(* a usize has 2 (32-bit targets such as wasm32) or 4 (64-bit targets).    *)
(***************************************************************************)
LimbBase   == 2 ^ 16
LimbSign   == 2 ^ 15
LimbValues == {0, 1, LimbSign - 1, LimbSign, LimbBase - 1}
I32Values    == {<<h, l>> : h \in LimbValues, l \in LimbValues}
I64Values    == {<<p, q, h, l>> : p \in LimbValues, q \in LimbValues,
                                  h \in LimbValues, l \in LimbValues}
UsizeValues  == I32Values \cup I64Values

\* The integer a limb sequence denotes, as its shortest two's complement
\* form (signed) or its form without leading zero limbs (unsigned): two
\* sequences denote the same integer iff these forms are equal.
RECURSIVE SignedForm(_)
SignedForm(v) ==
    IF Len(v) > 1 /\ ( \/ (v[1] = 0 /\ v[2] < LimbSign)
                       \/ (v[1] = LimbBase - 1 /\ v[2] >= LimbSign) )
    THEN SignedForm(Tail(v))
    ELSE v
RECURSIVE UnsignedForm(_)
UnsignedForm(v) ==
    IF Len(v) > 1 /\ v[1] = 0 THEN UnsignedForm(Tail(v)) ELSE v

\* A faulty variant: the upper limbs are filled with zeros (as u32 as i64).
i32_as_i64_zero_extended(v) == <<0, 0>> \o v

\* `*self as i64` on an i32: sign extension.
i32_as_i64(v) ==
    LET fill == IF v[1] >= LimbSign THEN LimbBase - 1 ELSE 0
    IN  <<fill, fill>> \o v

\* `*self as u64` on a usize: zero extension (none on a 64-bit target).
usize_as_u64(v) == [i \in 1..(4 - Len(v)) |-> 0] \o v

(***************************************************************************)
(* NumOrString and NumOrStringWrapper (private/mod.rs).                    *)
(***************************************************************************)
StringTypes == {"String", "str", "&String", "&str"}
Source(ty, val) == [ty |-> ty, val |-> val]
NoWrapper  == [tag |-> "none", val |-> <<>>]
WrapS(s)   == [tag |-> "S", val |-> s]
WrapF(x)   == [tag |-> "F", val |-> x]
WrapI(i)   == [tag |-> "I", val |-> i]
WrapU(u)   == [tag |-> "U", val |-> u]

\* self.to_owned() / String::from(*self): a copy of the characters.
to_owned(s) == [i \in 1..Len(s) |-> s[i]]

\* The eight impls of NumOrString::to_num_or_string, by the type of self.
to_num_or_string(x) ==
    CASE x.ty = "String"  -> WrapS(to_owned(x.val))
      [] x.ty = "str"     -> WrapS(to_owned(x.val))
      [] x.ty = "&String" -> WrapS(to_owned(x.val))
      [] x.ty = "&str"    -> WrapS(to_owned(x.val))
      [] x.ty = "f64"     -> WrapF(x.val)
      [] x.ty = "usize"   -> WrapU(usize_as_u64(x.val))
      [] x.ty = "i32"     -> WrapI(i32_as_i64(x.val))
      [] x.ty = "i64"     -> WrapI(x.val)

\* serde_json's serialize_f64: a float that is not finite is written null.
serialize_f64(x) ==
    IF is_finite(x) THEN JNum([sort |-> "float", mag |-> x]) ELSE JNull
serialize_i64(i) == JNum([sort |-> "int", mag |-> SignedForm(i)])
serialize_u64(u) == JNum([sort |-> "int", mag |-> SignedForm(<<0>> \o u)])
serialize_str(s) == JStr(s)

\* A faulty variant: the enum without #[serde(untagged)], written as an
\* object keyed by the variant's name.
NumOrStringWrapper_serialize_tagged(w) ==
    JObj(<< <<w.tag,
              CASE w.tag = "S" -> serialize_str(w.val)
                [] w.tag = "F" -> serialize_f64(w.val)
                [] w.tag = "I" -> serialize_i64(w.val)
                [] w.tag = "U" -> serialize_u64(w.val)>> >>)

\* #[derive(Serialize)] #[serde(untagged)] enum NumOrStringWrapper
NumOrStringWrapper_serialize(w) ==
    CASE w.tag = "S" -> serialize_str(w.val)
      [] w.tag = "F" -> serialize_f64(w.val)
      [] w.tag = "I" -> serialize_i64(w.val)
      [] w.tag = "U" -> serialize_u64(w.val)

NumInit ==
    /\ \/ \E ty \in StringTypes, s \in Texts : source = Source(ty, s)
       \/ \E x \in F64Values : source = Source("f64", x)
       \/ \E u \in UsizeValues : source = Source("usize", u)
       \/ \E i \in I32Values : source = Source("i32", i)
       \/ \E i \in I64Values : source = Source("i64", i)
    /\ wrapper = NoWrapper
    /\ scalar = NoValue
NumPark == source = Source("str", <<>>) /\ wrapper = NoWrapper /\ scalar = NoValue

\* source.to_num_or_string()
CallToNumOrString ==
    /\ wrapper.tag = "none"
    /\ wrapper' = to_num_or_string(source)
    /\ UNCHANGED <<source, scalar>>

\* serde_json::to_string(&wrapper)
SerializeNumOrStringWrapper ==
    /\ wrapper.tag # "none"
    /\ scalar.t = "none"
    /\ scalar' = NumOrStringWrapper_serialize(wrapper)
    /\ UNCHANGED <<source, wrapper>>

(***************************************************************************)
(* The trace structs: Scatter (scatter.rs), Mesh3D (traces/mesh3d.rs) and  *)
(* Surface (traces/surface.rs).                                            *)
(***************************************************************************)
\* struct Scatter: the fields in declaration order; key is the serde name, skip says
\* skip_serializing_if = "Option::is_none" (or skip_serializing_none) applies.
ScatterFields ==
    << [name |-> "type", key |-> "type", option |-> FALSE, skip |-> FALSE, ser |-> "ext"],
       [name |-> "x", key |-> "x", option |-> FALSE, skip |-> FALSE, ser |-> "vec_f64"],
       [name |-> "y", key |-> "y", option |-> FALSE, skip |-> FALSE, ser |-> "vec_f64"],
       [name |-> "name", key |-> "name", option |-> TRUE, skip |-> TRUE, ser |-> "str"],
       [name |-> "visible", key |-> "visible", option |-> TRUE, skip |-> TRUE, ser |-> "bool"],
       [name |-> "show_legend", key |-> "showlegend", option |-> TRUE, skip |-> TRUE, ser |-> "bool"],
       [name |-> "legend_group", key |-> "legendgroup", option |-> TRUE, skip |-> TRUE, ser |-> "str"],
       [name |-> "opacity", key |-> "opacity", option |-> TRUE, skip |-> TRUE, ser |-> "f64"],
       [name |-> "mode", key |-> "mode", option |-> TRUE, skip |-> TRUE, ser |-> "ext"],
       [name |-> "ids", key |-> "ids", option |-> TRUE, skip |-> TRUE, ser |-> "vec_str"],
       [name |-> "text", key |-> "text", option |-> TRUE, skip |-> TRUE, ser |-> "dim_str"],
       [name |-> "text_position", key |-> "textposition", option |-> TRUE, skip |-> TRUE, ser |-> "dim_ext"],
       [name |-> "text_template", key |-> "texttemplate", option |-> TRUE, skip |-> TRUE, ser |-> "dim_str"],
       [name |-> "hover_text", key |-> "hovertext", option |-> TRUE, skip |-> TRUE, ser |-> "dim_str"],
       [name |-> "hover_info", key |-> "hoverinfo", option |-> TRUE, skip |-> TRUE, ser |-> "ext"],
       [name |-> "hover_template", key |-> "hovertemplate", option |-> TRUE, skip |-> TRUE, ser |-> "dim_str"],
       [name |-> "orientation", key |-> "orientation", option |-> TRUE, skip |-> TRUE, ser |-> "ext"],
       [name |-> "group_norm", key |-> "groupnorm", option |-> TRUE, skip |-> TRUE, ser |-> "ext"],
       [name |-> "stack_group", key |-> "stackgroup", option |-> TRUE, skip |-> TRUE, ser |-> "str"],
       [name |-> "marker", key |-> "marker", option |-> TRUE, skip |-> TRUE, ser |-> "ext"],
       [name |-> "line", key |-> "line", option |-> TRUE, skip |-> TRUE, ser |-> "ext"],
       [name |-> "text_font", key |-> "textfont", option |-> TRUE, skip |-> TRUE, ser |-> "ext"],
       [name |-> "error_x", key |-> "error_x", option |-> TRUE, skip |-> TRUE, ser |-> "ext"],
       [name |-> "error_y", key |-> "error_y", option |-> TRUE, skip |-> TRUE, ser |-> "ext"],
       [name |-> "clip_on_axis", key |-> "cliponaxis", option |-> TRUE, skip |-> TRUE, ser |-> "bool"],
       [name |-> "connect_gaps", key |-> "connectgaps", option |-> TRUE, skip |-> TRUE, ser |-> "bool"],
       [name |-> "fill", key |-> "fill", option |-> TRUE, skip |-> TRUE, ser |-> "ext"],
       [name |-> "fill_color", key |-> "fillcolor", option |-> TRUE, skip |-> TRUE, ser |-> "str"],
       [name |-> "hover_label", key |-> "hoverlabel", option |-> TRUE, skip |-> TRUE, ser |-> "ext"],
       [name |-> "hover_on", key |-> "hoveron", option |-> TRUE, skip |-> TRUE, ser |-> "str"],
       [name |-> "stack_gaps", key |-> "stackgaps", option |-> TRUE, skip |-> TRUE, ser |-> "str"],
       [name |-> "x_calendar", key |-> "xcalendar", option |-> TRUE, skip |-> TRUE, ser |-> "ext"],
       [name |-> "y_calendar", key |-> "ycalendar", option |-> TRUE, skip |-> TRUE, ser |-> "ext"] >>

\* impl Scatter: each setter with the field it assigns, its parameter type and how
\* the argument is stored.
ScatterSetters ==
    { [fn |-> "name", field |-> "name", param |-> "&str", store |-> "to_owned"],
      [fn |-> "visible", field |-> "visible", param |-> "bool", store |-> "move"],
      [fn |-> "show_legend", field |-> "show_legend", param |-> "bool", store |-> "move"],
      [fn |-> "legend_group", field |-> "legend_group", param |-> "&str", store |-> "to_owned"],
      [fn |-> "opacity", field |-> "opacity", param |-> "f64", store |-> "move"],
      [fn |-> "mode", field |-> "mode", param |-> "Mode", store |-> "move"],
      [fn |-> "ids", field |-> "ids", param |-> "Vec<S>", store |-> "owned_string_vector"],
      [fn |-> "text", field |-> "text", param |-> "&str", store |-> "Scalar_to_owned"],
      [fn |-> "text_array", field |-> "text", param |-> "Vec<S>", store |-> "Vector_owned_string_vector"],
      [fn |-> "text_position", field |-> "text_position", param |-> "Position", store |-> "Scalar"],
      [fn |-> "text_position_array", field |-> "text_position", param |-> "Vec<Position>", store |-> "Vector"],
      [fn |-> "text_template", field |-> "text_template", param |-> "&str", store |-> "Scalar_to_owned"],
      [fn |-> "text_template_array", field |-> "text_template", param |-> "Vec<S>", store |-> "Vector_owned_string_vector"],
      [fn |-> "hover_text", field |-> "hover_text", param |-> "&str", store |-> "Scalar_to_owned"],
      [fn |-> "hover_text_array", field |-> "hover_text", param |-> "Vec<S>", store |-> "Vector_owned_string_vector"],
      [fn |-> "hover_info", field |-> "hover_info", param |-> "HoverInfo", store |-> "move"],
      [fn |-> "hover_template", field |-> "hover_template", param |-> "&str", store |-> "Scalar_to_owned"],
      [fn |-> "hover_template_array", field |-> "hover_template", param |-> "Vec<S>", store |-> "Vector_owned_string_vector"],
      [fn |-> "orientation", field |-> "orientation", param |-> "Orientation", store |-> "move"],
      [fn |-> "group_norm", field |-> "group_norm", param |-> "GroupNorm", store |-> "move"],
      [fn |-> "stack_group", field |-> "stack_group", param |-> "&str", store |-> "to_owned"],
      [fn |-> "marker", field |-> "marker", param |-> "Marker", store |-> "move"],
      [fn |-> "line", field |-> "line", param |-> "Line", store |-> "move"],
      [fn |-> "text_font", field |-> "text_font", param |-> "Font", store |-> "move"],
      [fn |-> "error_x", field |-> "error_x", param |-> "ErrorData", store |-> "move"],
      [fn |-> "error_y", field |-> "error_y", param |-> "ErrorData", store |-> "move"],
      [fn |-> "clip_on_axis", field |-> "clip_on_axis", param |-> "bool", store |-> "move"],
      [fn |-> "connect_gaps", field |-> "connect_gaps", param |-> "bool", store |-> "move"],
      [fn |-> "fill", field |-> "fill", param |-> "Fill", store |-> "move"],
      [fn |-> "fill_color", field |-> "fill_color", param |-> "C", store |-> "to_color_string"],
      [fn |-> "hover_label", field |-> "hover_label", param |-> "Label", store |-> "move"],
      [fn |-> "hover_on", field |-> "hover_on", param |-> "&str", store |-> "to_owned"],
      [fn |-> "stack_gaps", field |-> "stack_gaps", param |-> "&str", store |-> "to_owned"],
      [fn |-> "x_calendar", field |-> "x_calendar", param |-> "Calendar", store |-> "move"],
      [fn |-> "y_calendar", field |-> "y_calendar", param |-> "Calendar", store |-> "move"] }

\* struct Mesh3D: the fields in declaration order; key is the serde name, skip says
\* skip_serializing_if = "Option::is_none" (or skip_serializing_none) applies.
Mesh3DFields ==
    << [name |-> "type", key |-> "type", option |-> FALSE, skip |-> FALSE, ser |-> "ext"],
       [name |-> "name", key |-> "name", option |-> TRUE, skip |-> TRUE, ser |-> "str"],
       [name |-> "visible", key |-> "visible", option |-> TRUE, skip |-> TRUE, ser |-> "ext"],
       [name |-> "show_legend", key |-> "showlegend", option |-> TRUE, skip |-> TRUE, ser |-> "bool"],
       [name |-> "legend_rank", key |-> "legendrank", option |-> TRUE, skip |-> TRUE, ser |-> "usize"],
       [name |-> "legend_group", key |-> "legendgroup", option |-> TRUE, skip |-> TRUE, ser |-> "str"],
       [name |-> "legend_group_title", key |-> "legendgrouptitle", option |-> TRUE, skip |-> TRUE, ser |-> "ext"],
       [name |-> "opacity", key |-> "opacity", option |-> TRUE, skip |-> TRUE, ser |-> "f64"],
       [name |-> "ids", key |-> "ids", option |-> TRUE, skip |-> TRUE, ser |-> "vec_str"],
       [name |-> "x", key |-> "x", option |-> TRUE, skip |-> TRUE, ser |-> "vec_f64"],
       [name |-> "y", key |-> "y", option |-> TRUE, skip |-> TRUE, ser |-> "vec_f64"],
       [name |-> "z", key |-> "z", option |-> TRUE, skip |-> TRUE, ser |-> "vec_f64"],
       [name |-> "i", key |-> "i", option |-> TRUE, skip |-> TRUE, ser |-> "vec_usize"],
       [name |-> "j", key |-> "j", option |-> TRUE, skip |-> TRUE, ser |-> "vec_usize"],
       [name |-> "k", key |-> "k", option |-> TRUE, skip |-> TRUE, ser |-> "vec_usize"],
       [name |-> "face_color", key |-> "facecolor", option |-> TRUE, skip |-> TRUE, ser |-> "vec_ext"],
       [name |-> "intensity", key |-> "intensity", option |-> TRUE, skip |-> TRUE, ser |-> "vec_f64"],
       [name |-> "intensity_mode", key |-> "intensitymode", option |-> TRUE, skip |-> TRUE, ser |-> "ext"],
       [name |-> "vertex_color", key |-> "vertexcolor", option |-> TRUE, skip |-> TRUE, ser |-> "vec_ext"],
       [name |-> "text", key |-> "text", option |-> TRUE, skip |-> TRUE, ser |-> "dim_str"],
       [name |-> "hover_text", key |-> "hovertext", option |-> TRUE, skip |-> TRUE, ser |-> "dim_str"],
       [name |-> "hover_info", key |-> "hoverinfo", option |-> TRUE, skip |-> TRUE, ser |-> "ext"],
       [name |-> "hover_template", key |-> "hovertemplate", option |-> TRUE, skip |-> TRUE, ser |-> "dim_str"],
       [name |-> "x_hover_format", key |-> "xhoverformat", option |-> TRUE, skip |-> TRUE, ser |-> "str"],
       [name |-> "y_hover_format", key |-> "yhoverformat", option |-> TRUE, skip |-> TRUE, ser |-> "str"],
       [name |-> "meta", key |-> "meta", option |-> TRUE, skip |-> TRUE, ser |-> "ext"],
       [name |-> "custom_data", key |-> "custom_data", option |-> TRUE, skip |-> TRUE, ser |-> "ext"],
       [name |-> "scene", key |-> "scene", option |-> TRUE, skip |-> TRUE, ser |-> "str"],
       [name |-> "color_axis", key |-> "coloraxis", option |-> TRUE, skip |-> TRUE, ser |-> "str"],
       [name |-> "color", key |-> "color", option |-> TRUE, skip |-> TRUE, ser |-> "ext"],
       [name |-> "color_bar", key |-> "colorbar", option |-> TRUE, skip |-> TRUE, ser |-> "ext"],
       [name |-> "color_bar_orientation", key |-> "colorbar_orientation", option |-> TRUE, skip |-> TRUE, ser |-> "ext"],
       [name |-> "auto_color_scale", key |-> "autocolorscale", option |-> TRUE, skip |-> TRUE, ser |-> "bool"],
       [name |-> "color_scale", key |-> "colorscale", option |-> TRUE, skip |-> TRUE, ser |-> "ext"],
       [name |-> "show_scale", key |-> "showscale", option |-> TRUE, skip |-> TRUE, ser |-> "bool"],
       [name |-> "reverse_scale", key |-> "reversescale", option |-> TRUE, skip |-> TRUE, ser |-> "bool"],
       [name |-> "z_hover_format", key |-> "zhoverformat", option |-> TRUE, skip |-> TRUE, ser |-> "str"],
       [name |-> "cauto", key |-> "cauto", option |-> TRUE, skip |-> TRUE, ser |-> "bool"],
       [name |-> "cmax", key |-> "cmax", option |-> TRUE, skip |-> TRUE, ser |-> "f64"],
       [name |-> "cmid", key |-> "cmid", option |-> TRUE, skip |-> TRUE, ser |-> "f64"],
       [name |-> "cmin", key |-> "cmin", option |-> TRUE, skip |-> TRUE, ser |-> "f64"],
       [name |-> "alpha_hull", key |-> "alphahull", option |-> TRUE, skip |-> TRUE, ser |-> "f64"],
       [name |-> "delaunay_axis", key |-> "delaunayaxis", option |-> TRUE, skip |-> TRUE, ser |-> "ext"],
       [name |-> "contour", key |-> "contour", option |-> TRUE, skip |-> TRUE, ser |-> "ext"],
       [name |-> "flat_shading", key |-> "flatshading", option |-> TRUE, skip |-> TRUE, ser |-> "bool"],
       [name |-> "hover_label", key |-> "hoverlabel", option |-> TRUE, skip |-> TRUE, ser |-> "ext"],
       [name |-> "lighting", key |-> "lighting", option |-> TRUE, skip |-> TRUE, ser |-> "ext"],
       [name |-> "light_position", key |-> "lightposition", option |-> TRUE, skip |-> TRUE, ser |-> "ext"],
       [name |-> "x_calendar", key |-> "xcalendar", option |-> TRUE, skip |-> TRUE, ser |-> "ext"],
       [name |-> "y_calendar", key |-> "ycalendar", option |-> TRUE, skip |-> TRUE, ser |-> "ext"],
       [name |-> "z_calendar", key |-> "ycalendar", option |-> TRUE, skip |-> TRUE, ser |-> "ext"],
       [name |-> "ui_revision", key |-> "uirevision", option |-> TRUE, skip |-> TRUE, ser |-> "ext"] >>

\* impl Mesh3D: each setter with the field it assigns, its parameter type and how
\* the argument is stored.
Mesh3DSetters ==
    { [fn |-> "name", field |-> "name", param |-> "&str", store |-> "to_owned"],
      [fn |-> "visible", field |-> "visible", param |-> "Visible", store |-> "move"],
      [fn |-> "show_legend", field |-> "show_legend", param |-> "bool", store |-> "move"],
      [fn |-> "legend_rank", field |-> "legend_rank", param |-> "usize", store |-> "move"],
      [fn |-> "legend_group", field |-> "legend_group", param |-> "&str", store |-> "to_owned"],
      [fn |-> "legend_group_title", field |-> "legend_group_title", param |-> "LegendGroupTitle", store |-> "move"],
      [fn |-> "opacity", field |-> "opacity", param |-> "f64", store |-> "move"],
      [fn |-> "ids", field |-> "ids", param |-> "Vec<S>", store |-> "owned_string_vector"],
      [fn |-> "facecolor", field |-> "face_color", param |-> "Vec<C>", store |-> "map_Box_new"],
      [fn |-> "intensity", field |-> "intensity", param |-> "Vec<f64>", store |-> "move"],
      [fn |-> "intensitymode", field |-> "intensity_mode", param |-> "IntensityMode", store |-> "move"],
      [fn |-> "vertexcolor", field |-> "vertex_color", param |-> "Vec<C>", store |-> "map_Box_new"],
      [fn |-> "text", field |-> "text", param |-> "&str", store |-> "Scalar_to_owned"],
      [fn |-> "text_array", field |-> "text", param |-> "Vec<S>", store |-> "Vector_owned_string_vector"],
      [fn |-> "hover_text", field |-> "hover_text", param |-> "&str", store |-> "Scalar_to_owned"],
      [fn |-> "hover_text_array", field |-> "hover_text", param |-> "Vec<S>", store |-> "Vector_owned_string_vector"],
      [fn |-> "hover_info", field |-> "hover_info", param |-> "HoverInfo", store |-> "move"],
      [fn |-> "hover_template", field |-> "hover_template", param |-> "&str", store |-> "Scalar_to_owned"],
      [fn |-> "hover_template_array", field |-> "hover_template", param |-> "Vec<S>", store |-> "Vector_owned_string_vector"],
      [fn |-> "xhoverformat", field |-> "x_hover_format", param |-> "&str", store |-> "to_owned"],
      [fn |-> "yhoverformat", field |-> "y_hover_format", param |-> "&str", store |-> "to_owned"],
      [fn |-> "meta", field |-> "meta", param |-> "V", store |-> "into"],
      [fn |-> "custom_data", field |-> "custom_data", param |-> "Vec<V>", store |-> "into"],
      [fn |-> "scene", field |-> "scene", param |-> "&str", store |-> "to_owned"],
      [fn |-> "coloraxis", field |-> "color_axis", param |-> "&str", store |-> "to_owned"],
      [fn |-> "color", field |-> "color", param |-> "C", store |-> "Box_new"],
      [fn |-> "colorbar", field |-> "color_bar", param |-> "ColorBar", store |-> "move"],
      [fn |-> "orientation", field |-> "color_bar_orientation", param |-> "Orientation", store |-> "move"],
      [fn |-> "auto_color_scale", field |-> "auto_color_scale", param |-> "bool", store |-> "move"],
      [fn |-> "color_scale", field |-> "color_scale", param |-> "ColorScale", store |-> "move"],
      [fn |-> "show_scale", field |-> "show_scale", param |-> "bool", store |-> "move"],
      [fn |-> "reverse_scale", field |-> "reverse_scale", param |-> "bool", store |-> "move"],
      [fn |-> "zhoverformat", field |-> "z_hover_format", param |-> "&str", store |-> "to_owned"],
      [fn |-> "cauto", field |-> "cauto", param |-> "bool", store |-> "move"],
      [fn |-> "cmax", field |-> "cmax", param |-> "f64", store |-> "move"],
      [fn |-> "cmin", field |-> "cmin", param |-> "f64", store |-> "move"],
      [fn |-> "cmid", field |-> "cmid", param |-> "f64", store |-> "move"],
      [fn |-> "alphahull", field |-> "alpha_hull", param |-> "f64", store |-> "move"],
      [fn |-> "delaunayaxis", field |-> "delaunay_axis", param |-> "DelaunayAxis", store |-> "move"],
      [fn |-> "contour", field |-> "contour", param |-> "Contour", store |-> "move"],
      [fn |-> "flatshading", field |-> "flat_shading", param |-> "bool", store |-> "move"],
      [fn |-> "hover_label", field |-> "hover_label", param |-> "Label", store |-> "move"],
      [fn |-> "lighting", field |-> "lighting", param |-> "Lighting", store |-> "move"],
      [fn |-> "lightposition", field |-> "light_position", param |-> "LightPosition", store |-> "move"],
      [fn |-> "x_calendar", field |-> "x_calendar", param |-> "Calendar", store |-> "move"],
      [fn |-> "y_calendar", field |-> "y_calendar", param |-> "Calendar", store |-> "move"],
      [fn |-> "z_calendar", field |-> "z_calendar", param |-> "Calendar", store |-> "move"],
      [fn |-> "uirevision", field |-> "ui_revision", param |-> "V", store |-> "into"] }

\* struct Surface: the fields in declaration order; key is the serde name, skip says
\* skip_serializing_if = "Option::is_none" (or skip_serializing_none) applies.
SurfaceFields ==
    << [name |-> "type", key |-> "type", option |-> FALSE, skip |-> FALSE, ser |-> "ext"],
       [name |-> "x", key |-> "x", option |-> TRUE, skip |-> TRUE, ser |-> "vec_f64"],
       [name |-> "y", key |-> "y", option |-> TRUE, skip |-> TRUE, ser |-> "vec_f64"],
       [name |-> "z", key |-> "z", option |-> FALSE, skip |-> FALSE, ser |-> "vec_vec_f64"],
       [name |-> "name", key |-> "name", option |-> TRUE, skip |-> TRUE, ser |-> "str"],
       [name |-> "visible", key |-> "visible", option |-> TRUE, skip |-> TRUE, ser |-> "ext"],
       [name |-> "show_legend", key |-> "showlegend", option |-> TRUE, skip |-> TRUE, ser |-> "bool"],
       [name |-> "legend_group", key |-> "legendgroup", option |-> TRUE, skip |-> TRUE, ser |-> "str"],
       [name |-> "opacity", key |-> "opacity", option |-> TRUE, skip |-> TRUE, ser |-> "f64"],
       [name |-> "surface_color", key |-> "surfacecolor", option |-> TRUE, skip |-> TRUE, ser |-> "vec_ext"],
       [name |-> "text", key |-> "text", option |-> TRUE, skip |-> TRUE, ser |-> "dim_str"],
       [name |-> "hover_text", key |-> "hovertext", option |-> TRUE, skip |-> TRUE, ser |-> "dim_str"],
       [name |-> "hover_info", key |-> "hoverinfo", option |-> TRUE, skip |-> TRUE, ser |-> "ext"],
       [name |-> "hover_template", key |-> "hovertemplate", option |-> TRUE, skip |-> TRUE, ser |-> "dim_str"],
       [name |-> "color_bar", key |-> "colorbar", option |-> TRUE, skip |-> TRUE, ser |-> "ext"],
       [name |-> "auto_color_scale", key |-> "autocolorscale", option |-> TRUE, skip |-> TRUE, ser |-> "bool"],
       [name |-> "color_scale", key |-> "colorscale", option |-> TRUE, skip |-> TRUE, ser |-> "ext"],
       [name |-> "show_scale", key |-> "showscale", option |-> TRUE, skip |-> TRUE, ser |-> "bool"],
       [name |-> "reverse_scale", key |-> "reversescale", option |-> TRUE, skip |-> TRUE, ser |-> "bool"],
       [name |-> "cauto", key |-> "cauto", option |-> TRUE, skip |-> TRUE, ser |-> "bool"],
       [name |-> "cmin", key |-> "cmin", option |-> TRUE, skip |-> TRUE, ser |-> "f64"],
       [name |-> "cmax", key |-> "cmax", option |-> TRUE, skip |-> TRUE, ser |-> "f64"],
       [name |-> "cmid", key |-> "cmid", option |-> TRUE, skip |-> TRUE, ser |-> "f64"],
       [name |-> "connect_gaps", key |-> "connectgaps", option |-> TRUE, skip |-> TRUE, ser |-> "bool"],
       [name |-> "contours", key |-> "contours", option |-> TRUE, skip |-> TRUE, ser |-> "ext"],
       [name |-> "hide_surface", key |-> "hidesurface", option |-> TRUE, skip |-> TRUE, ser |-> "bool"],
       [name |-> "hover_label", key |-> "hoverlabel", option |-> TRUE, skip |-> TRUE, ser |-> "ext"],
       [name |-> "lighting", key |-> "lighting", option |-> TRUE, skip |-> TRUE, ser |-> "ext"],
       [name |-> "light_position", key |-> "lightposition", option |-> TRUE, skip |-> TRUE, ser |-> "ext"],
       [name |-> "x_calendar", key |-> "xcalendar", option |-> TRUE, skip |-> TRUE, ser |-> "ext"],
       [name |-> "y_calendar", key |-> "ycalendar", option |-> TRUE, skip |-> TRUE, ser |-> "ext"],
       [name |-> "z_calendar", key |-> "zcalendar", option |-> TRUE, skip |-> TRUE, ser |-> "ext"] >>

\* impl Surface: each setter with the field it assigns, its parameter type and how
\* the argument is stored.
SurfaceSetters ==
    { [fn |-> "x", field |-> "x", param |-> "Vec<X>", store |-> "move"],
      [fn |-> "y", field |-> "y", param |-> "Vec<Y>", store |-> "move"],
      [fn |-> "name", field |-> "name", param |-> "&str", store |-> "to_owned"],
      [fn |-> "visible", field |-> "visible", param |-> "Visible", store |-> "move"],
      [fn |-> "show_legend", field |-> "show_legend", param |-> "bool", store |-> "move"],
      [fn |-> "legend_group", field |-> "legend_group", param |-> "&str", store |-> "to_owned"],
      [fn |-> "opacity", field |-> "opacity", param |-> "f64", store |-> "move"],
      [fn |-> "surface_color", field |-> "surface_color", param |-> "Vec<C>", store |-> "ColorArray_into"],
      [fn |-> "text", field |-> "text", param |-> "&str", store |-> "Scalar_to_owned"],
      [fn |-> "text_array", field |-> "text", param |-> "Vec<S>", store |-> "Vector_owned_string_vector"],
      [fn |-> "hover_text", field |-> "hover_text", param |-> "&str", store |-> "Scalar_to_owned"],
      [fn |-> "hover_text_array", field |-> "hover_text", param |-> "Vec<S>", store |-> "Vector_owned_string_vector"],
      [fn |-> "hover_info", field |-> "hover_info", param |-> "HoverInfo", store |-> "move"],
      [fn |-> "hover_template", field |-> "hover_template", param |-> "&str", store |-> "Scalar_to_owned"],
      [fn |-> "hover_template_array", field |-> "hover_template", param |-> "Vec<S>", store |-> "Vector_owned_string_vector"],
      [fn |-> "color_bar", field |-> "color_bar", param |-> "ColorBar", store |-> "move"],
      [fn |-> "auto_color_scale", field |-> "auto_color_scale", param |-> "bool", store |-> "move"],
      [fn |-> "color_scale", field |-> "color_scale", param |-> "ColorScale", store |-> "move"],
      [fn |-> "show_scale", field |-> "show_scale", param |-> "bool", store |-> "move"],
      [fn |-> "reverse_scale", field |-> "reverse_scale", param |-> "bool", store |-> "move"],
      [fn |-> "cauto", field |-> "cauto", param |-> "bool", store |-> "move"],
      [fn |-> "cmin", field |-> "cmin", param |-> "f64", store |-> "move"],
      [fn |-> "cmax", field |-> "cmax", param |-> "f64", store |-> "move"],
      [fn |-> "cmid", field |-> "cmid", param |-> "f64", store |-> "move"],
      [fn |-> "connect_gaps", field |-> "connect_gaps", param |-> "bool", store |-> "move"],
      [fn |-> "contours", field |-> "contours", param |-> "SurfaceContours", store |-> "move"],
      [fn |-> "hide_surface", field |-> "hide_surface", param |-> "bool", store |-> "move"],
      [fn |-> "hover_label", field |-> "hover_label", param |-> "Label", store |-> "move"],
      [fn |-> "lighting", field |-> "lighting", param |-> "Lighting", store |-> "move"],
      [fn |-> "light_position", field |-> "light_position", param |-> "Position", store |-> "move"],
      [fn |-> "x_calendar", field |-> "x_calendar", param |-> "Calendar", store |-> "move"],
      [fn |-> "y_calendar", field |-> "y_calendar", param |-> "Calendar", store |-> "move"],
      [fn |-> "z_calendar", field |-> "z_calendar", param |-> "Calendar", store |-> "move"] }

\* The option structs of traces/mesh3d.rs: Contour, Lighting and LightPosition.
\* Every field is an Option with skip_serializing_if = "Option::is_none".
Mesh3DOptionFields(ty) ==
    CASE ty = "mesh3d::Contour" ->
        << [name |-> "color", key |-> "color", option |-> TRUE, skip |-> TRUE, ser |-> "ext"],
           [name |-> "show", key |-> "show", option |-> TRUE, skip |-> TRUE, ser |-> "bool"],
           [name |-> "width", key |-> "width", option |-> TRUE, skip |-> TRUE, ser |-> "usize"] >>
      [] ty = "mesh3d::Lighting" ->
        << [name |-> "ambient", key |-> "ambient", option |-> TRUE, skip |-> TRUE, ser |-> "f64"],
           [name |-> "diffuse", key |-> "diffuse", option |-> TRUE, skip |-> TRUE, ser |-> "f64"],
           [name |-> "face_normals_epsilon", key |-> "facenormalsepsilon", option |-> TRUE, skip |-> TRUE, ser |-> "f64"],
           [name |-> "fresnel", key |-> "fresnel", option |-> TRUE, skip |-> TRUE, ser |-> "f64"],
           [name |-> "roughness", key |-> "roughness", option |-> TRUE, skip |-> TRUE, ser |-> "f64"],
           [name |-> "specular", key |-> "specular", option |-> TRUE, skip |-> TRUE, ser |-> "f64"],
           [name |-> "vertex_normals_epsilon", key |-> "vertex_normals_epsilon", option |-> TRUE, skip |-> TRUE, ser |-> "f64"] >>
      [] ty = "mesh3d::LightPosition" ->
        << [name |-> "x", key |-> "x", option |-> TRUE, skip |-> TRUE, ser |-> "vec_f64"],
           [name |-> "y", key |-> "y", option |-> TRUE, skip |-> TRUE, ser |-> "vec_f64"],
           [name |-> "z", key |-> "z", option |-> TRUE, skip |-> TRUE, ser |-> "vec_f64"] >>
Mesh3DOptionSetters(ty) ==
    CASE ty = "mesh3d::Contour" ->
        { [fn |-> "color", field |-> "color", param |-> "C", store |-> "Box_new"],
          [fn |-> "show", field |-> "show", param |-> "bool", store |-> "move"],
          [fn |-> "width", field |-> "width", param |-> "usize", store |-> "move"] }
      [] ty = "mesh3d::Lighting" ->
        { [fn |-> "ambient", field |-> "ambient", param |-> "f64", store |-> "move"],
          [fn |-> "diffuse", field |-> "diffuse", param |-> "f64", store |-> "move"],
          [fn |-> "facenormalsepsilon", field |-> "face_normals_epsilon", param |-> "f64", store |-> "move"],
          [fn |-> "fresnel", field |-> "fresnel", param |-> "f64", store |-> "move"],
          [fn |-> "roughness", field |-> "roughness", param |-> "f64", store |-> "move"],
          [fn |-> "specular", field |-> "specular", param |-> "f64", store |-> "move"],
          [fn |-> "vertexnormalsepsilon", field |-> "vertex_normals_epsilon", param |-> "f64", store |-> "move"] }
      [] ty = "mesh3d::LightPosition" ->
        { [fn |-> "x", field |-> "x", param |-> "Vec<f64>", store |-> "move"],
          [fn |-> "y", field |-> "y", param |-> "Vec<f64>", store |-> "move"],
          [fn |-> "z", field |-> "z", param |-> "Vec<f64>", store |-> "move"] }

\* The option structs of traces/surface.rs: Lighting, PlaneProject,
\* PlaneContours and SurfaceContours, all #[serde_with::skip_serializing_none].
SurfaceOptionFields(ty) ==
    CASE ty = "surface::Lighting" ->
        << [name |-> "ambient", key |-> "ambient", option |-> TRUE, skip |-> TRUE, ser |-> "f64"],
           [name |-> "diffuse", key |-> "diffuse", option |-> TRUE, skip |-> TRUE, ser |-> "f64"],
           [name |-> "specular", key |-> "specular", option |-> TRUE, skip |-> TRUE, ser |-> "f64"],
           [name |-> "roughness", key |-> "roughness", option |-> TRUE, skip |-> TRUE, ser |-> "f64"],
           [name |-> "fresnel", key |-> "fresnel", option |-> TRUE, skip |-> TRUE, ser |-> "f64"] >>
      [] ty = "surface::PlaneProject" ->
        << [name |-> "x", key |-> "x", option |-> TRUE, skip |-> TRUE, ser |-> "bool"],
           [name |-> "y", key |-> "y", option |-> TRUE, skip |-> TRUE, ser |-> "bool"],
           [name |-> "z", key |-> "z", option |-> TRUE, skip |-> TRUE, ser |-> "bool"] >>
      [] ty = "surface::PlaneContours" ->
        << [name |-> "show", key |-> "show", option |-> TRUE, skip |-> TRUE, ser |-> "bool"],
           [name |-> "start", key |-> "start", option |-> TRUE, skip |-> TRUE, ser |-> "f64"],
           [name |-> "end", key |-> "end", option |-> TRUE, skip |-> TRUE, ser |-> "f64"],
           [name |-> "size", key |-> "size", option |-> TRUE, skip |-> TRUE, ser |-> "usize"],
           [name |-> "project", key |-> "project", option |-> TRUE, skip |-> TRUE, ser |-> "ext"],
           [name |-> "color", key |-> "color", option |-> TRUE, skip |-> TRUE, ser |-> "ext"],
           [name |-> "use_colormap", key |-> "usecolormap", option |-> TRUE, skip |-> TRUE, ser |-> "bool"],
           [name |-> "width", key |-> "width", option |-> TRUE, skip |-> TRUE, ser |-> "usize"],
           [name |-> "highlight", key |-> "highlight", option |-> TRUE, skip |-> TRUE, ser |-> "bool"],
           [name |-> "highlight_color", key |-> "highlightcolor", option |-> TRUE, skip |-> TRUE, ser |-> "ext"],
           [name |-> "highlight_width", key |-> "highlightwidth", option |-> TRUE, skip |-> TRUE, ser |-> "usize"] >>
      [] ty = "surface::SurfaceContours" ->
        << [name |-> "x", key |-> "x", option |-> TRUE, skip |-> TRUE, ser |-> "ext"],
           [name |-> "y", key |-> "y", option |-> TRUE, skip |-> TRUE, ser |-> "ext"],
           [name |-> "z", key |-> "z", option |-> TRUE, skip |-> TRUE, ser |-> "ext"] >>
SurfaceOptionSetters(ty) ==
    CASE ty = "surface::Lighting" ->
        { [fn |-> "ambient", field |-> "ambient", param |-> "f64", store |-> "move"],
          [fn |-> "diffuse", field |-> "diffuse", param |-> "f64", store |-> "move"],
          [fn |-> "specular", field |-> "specular", param |-> "f64", store |-> "move"],
          [fn |-> "roughness", field |-> "roughness", param |-> "f64", store |-> "move"],
          [fn |-> "fresnel", field |-> "fresnel", param |-> "f64", store |-> "move"] }
      [] ty = "surface::PlaneProject" ->
        { [fn |-> "x", field |-> "x", param |-> "bool", store |-> "move"],
          [fn |-> "y", field |-> "y", param |-> "bool", store |-> "move"],
          [fn |-> "z", field |-> "z", param |-> "bool", store |-> "move"] }
      [] ty = "surface::PlaneContours" ->
        { [fn |-> "show", field |-> "show", param |-> "bool", store |-> "move"],
          [fn |-> "start", field |-> "start", param |-> "f64", store |-> "move"],
          [fn |-> "end", field |-> "end", param |-> "f64", store |-> "move"],
          [fn |-> "size", field |-> "size", param |-> "usize", store |-> "move"],
          [fn |-> "project", field |-> "project", param |-> "PlaneProject", store |-> "move"],
          [fn |-> "color", field |-> "color", param |-> "C", store |-> "Box_new"],
          [fn |-> "use_colormap", field |-> "use_colormap", param |-> "bool", store |-> "move"],
          [fn |-> "width", field |-> "width", param |-> "usize", store |-> "move"],
          [fn |-> "highlight", field |-> "highlight", param |-> "bool", store |-> "move"],
          [fn |-> "highlight_color", field |-> "highlight_color", param |-> "C", store |-> "Box_new"],
          [fn |-> "highlight_width", field |-> "highlight_width", param |-> "usize", store |-> "move"] }
      [] ty = "surface::SurfaceContours" ->
        { [fn |-> "x", field |-> "x", param |-> "PlaneContours", store |-> "move"],
          [fn |-> "y", field |-> "y", param |-> "PlaneContours", store |-> "move"],
          [fn |-> "z", field |-> "z", param |-> "PlaneContours", store |-> "move"] }

TraceTypes         == {"Scatter", "Mesh3D", "Surface"}
Mesh3DOptionTypes  == {"mesh3d::Contour", "mesh3d::Lighting", "mesh3d::LightPosition"}
SurfaceOptionTypes == {"surface::Lighting", "surface::PlaneProject",
                       "surface::PlaneContours", "surface::SurfaceContours"}

Fields(ty) ==
    CASE ty = "Scatter" -> ScatterFields
      [] ty = "Mesh3D"  -> Mesh3DFields
      [] ty = "Surface" -> SurfaceFields
      [] ty \in Mesh3DOptionTypes  -> Mesh3DOptionFields(ty)
      [] ty \in SurfaceOptionTypes -> SurfaceOptionFields(ty)
Setters(ty) ==
    CASE ty = "Scatter" -> ScatterSetters
      [] ty = "Mesh3D"  -> Mesh3DSetters
      [] ty = "Surface" -> SurfaceSetters
      [] ty \in Mesh3DOptionTypes  -> Mesh3DOptionSetters(ty)
      [] ty \in SurfaceOptionTypes -> SurfaceOptionSetters(ty)
FieldNames(ty) == {Fields(ty)[i].name : i \in DOMAIN Fields(ty)}

\* A value of a type that crate::common defines (an enum such as Mode or
\* Calendar, a struct such as Marker, a color): the type's name and which
\* of its values it is.
Ext(type, id) == [ext |-> type, id |-> id]
\* Dim<T>: Scalar(T) or Vector(Vec<T>); v holds the one item or the items.
DimScalar(x) == [dim |-> "Scalar", v |-> <<x>>]
DimVector(s) == [dim |-> "Vector", v |-> s]

\* A faulty variant: the repeats of the first element are dropped.
owned_string_vector_merging(s) ==
    LET keep == {i \in 1..Len(s) : i = 1 \/ s[i] # s[1]}
    IN  [n \in 1..Cardinality(keep) |->
            to_owned(s[CHOOSE i \in keep : Cardinality({j \in keep : j < i}) = n - 1])]

\* private::owned_string_vector: s.iter().map(|x| x.as_ref().to_string()).collect()
owned_string_vector(s) == [i \in 1..Len(s) |-> to_owned(s[i])]
\* Color::to_color_string: the color's text.
to_color_string(c) == c.id
\* .into_iter().map(|c| Box::new(c) as _).collect()
map_Box_new(v) == [i \in 1..Len(v) |-> v[i]]

\* What a setter stores in its field: the expression inside Some(..).
Stored(s, arg) ==
    CASE s.store = "move"                       -> arg
      [] s.store = "to_owned"                   -> to_owned(arg)
      [] s.store = "Scalar_to_owned"            -> DimScalar(to_owned(arg))
      [] s.store = "Scalar"                     -> DimScalar(arg)
      [] s.store = "Vector_owned_string_vector" -> DimVector(owned_string_vector(arg))
      [] s.store = "Vector"                     -> DimVector(arg)
      [] s.store = "owned_string_vector"        -> owned_string_vector(arg)
      [] s.store = "to_color_string"            -> to_color_string(arg)
      [] s.store = "Box_new"                    -> arg
      [] s.store = "map_Box_new"                -> map_Box_new(arg)
      [] s.store = "ColorArray_into"            -> map_Box_new(arg)
      [] s.store = "into"                       -> arg

\* A faulty variant: a field that is already set keeps its value.
apply_setter_keep_first(t, s, arg) ==
    IF Len(t.f[s.field]) = 0
    THEN [t EXCEPT !.f[s.field] = <<Stored(s, arg)>>]
    ELSE t

\* A faulty variant: a setter of another field takes the name back.
apply_setter_resetting_name(t, s, arg) ==
    IF "name" \in DOMAIN t.f /\ s.field # "name"
    THEN [t EXCEPT !.f[s.field] = <<Stored(s, arg)>>, !.f["name"] = <<>>]
    ELSE [t EXCEPT !.f[s.field] = <<Stored(s, arg)>>]

\* A faulty variant: the setter starts from a fresh builder and keeps only
\* what has no setter.
apply_setter_rebuilding(t, s, arg) ==
    [ty |-> t.ty,
     f  |-> [n \in DOMAIN t.f |->
                IF n = s.field THEN <<Stored(s, arg)>>
                ELSE IF \E u \in Setters(t.ty) : u.field = n THEN <<>>
                ELSE t.f[n]]]

\* A faulty variant: facecolor takes back what it is documented to override.
apply_setter_overriding(t, s, arg) ==
    IF s.fn = "facecolor"
    THEN [t EXCEPT !.f[s.field] = <<Stored(s, arg)>>,
                   !.f["color"] = <<>>, !.f["vertex_color"] = <<>>]
    ELSE [t EXCEPT !.f[s.field] = <<Stored(s, arg)>>]

\* self.<field> = Some(..); Box::new(self)
apply_setter(t, s, arg) == [t EXCEPT !.f[s.field] = <<Stored(s, arg)>>]

\* Sample arguments by parameter type.
TextA == <<"a">>
TextB == <<"t", Quote>>
VecF64A == << <<"1", ".", "0">>, <<"2", ".", "0">> >>
VecF64B == << <<"3", ".", "0">> >>
ColorValue == Ext("Color", <<"r", "e", "d">>)
ArgValues(param) ==
    CASE param = "&str"     -> {TextA, TextB}
      [] param = "bool"     -> BOOLEAN
      [] param = "f64"      -> {<<"0", ".", "5">>, F64NaN}
      [] param = "usize"    -> {<<0, 1>>}
      [] param = "Vec<S>"   -> {<<TextA, TextB>>, <<TextB, TextA, TextB>>}
      [] param \in {"Vec<X>", "Vec<Y>", "Vec<f64>"} -> {VecF64B}
      [] param = "Vec<Position>" -> {<<Ext("Position", 1), Ext("Position", 2)>>}
      [] param = "C"        -> {ColorValue}
      [] param = "Vec<C>"   -> {<<ColorValue, ColorValue>>}
      [] param = "V"        -> {Ext("NumOrString", 1)}
      [] param = "Vec<V>"   -> {<<Ext("NumOrString", 1)>>}
      [] OTHER              -> {Ext(param, 1)}

\* Sample arguments of the option structs' setters: values inside, on and
\* outside the ranges the setters assert.
F(whole, tenth) == whole \o <<".", tenth>>
OptionF64Values ==
    { F(<<"-", "0">>, "5"), F(<<"0">>, "0"), F(<<"0">>, "5"), F(<<"1">>, "0"),
      F(<<"1">>, "5"), F(<<"2">>, "0"), F(<<"2">>, "5"), F(<<"5">>, "0"),
      F(<<"5">>, "5"), F64NaN, F64Inf }
F64Limit    == F(<<"1", "0", "0", "0", "0", "0">>, "0")
F64NegLimit == <<"-">> \o F64Limit
OptionVecF64Values ==
    { <<>>, <<F(<<"0">>, "5")>>, <<F64Limit, F64NegLimit>>,
      <<F(<<"0">>, "5"), F(<<"1", "0", "0", "0", "0", "0">>, "5")>>,
      <<F(<<"1", "0", "0", "0", "0", "0">>, "5"), F(<<"0">>, "5")>>,
      <<<<"-">> \o F(<<"1", "0", "0", "0", "0", "0">>, "5")>>, <<F64NaN>> }
OptionUsizeValues ==
    { <<0, 0>>, <<0, 1>>, <<0, 16>>, <<0, 17>>, <<LimbBase - 1, LimbBase - 1>> }
OptionArgValues(param) ==
    CASE param = "f64"      -> OptionF64Values
      [] param = "Vec<f64>" -> OptionVecF64Values
      [] param = "usize"    -> OptionUsizeValues
      [] OTHER              -> ArgValues(param)

\* Comparison of f64 values.  The value of a decimal lexeme with one
\* fractional digit, in tenths; a comparison with NaN is false.
IsDigit(c) == c \in {"0", "1", "2", "3", "4", "5", "6", "7", "8", "9"}
RECURSIVE DecimalOf(_)
DecimalOf(digits) ==
    IF Len(digits) = 0 THEN 0
    ELSE 10 * DecimalOf(SubSeq(digits, 1, Len(digits) - 1))
            + (CHOOSE n \in 0..9 : ToString(n) = digits[Len(digits)])
f64_tenths(x) ==
    IF Head(x) = "-" THEN 0 - DecimalOf(SelectSeq(x, IsDigit))
    ELSE DecimalOf(SelectSeq(x, IsDigit))
f64_le(x, y) ==
    IF x = F64NaN \/ y = F64NaN THEN FALSE
    ELSE IF x = F64NegInf \/ y = F64Inf THEN TRUE
    ELSE IF x = F64Inf \/ y = F64NegInf THEN FALSE
    ELSE f64_tenths(x) <= f64_tenths(y)

\* Comparison of usize values of the same width, limb by limb.
RECURSIVE usize_le(_, _)
usize_le(x, y) ==
    IF Len(x) = 0 THEN TRUE
    ELSE IF Head(x) # Head(y) THEN Head(x) < Head(y)
    ELSE usize_le(Tail(x), Tail(y))

\* A faulty variant: no setter asserts anything.
asserts_hold_unchecked(ty, fn, arg) == TRUE

\* A faulty variant: the bounds of a lighting coefficient are rejected.
asserts_hold_exclusive(ty, fn, arg) ==
    IF ty = "mesh3d::Lighting"
    THEN LET hi == CASE fn = "fresnel"  -> F(<<"5">>, "0")
                     [] fn = "specular" -> F(<<"2">>, "0")
                     [] OTHER           -> F(<<"1">>, "0")
         IN  f64_le(F(<<"0">>, "0"), arg) /\ f64_le(arg, hi)
                 /\ arg # F(<<"0">>, "0") /\ arg # hi
    ELSE TRUE

\* A faulty variant: only the first coordinate of a light position is tested.
asserts_hold_first_only(ty, fn, arg) ==
    IF ty = "mesh3d::LightPosition"
    THEN Len(arg) = 0 \/ (f64_le(F64NegLimit, arg[1]) /\ f64_le(arg[1], F64Limit))
    ELSE TRUE

\* The assert! calls of the option structs' setters: TRUE when the setter
\* fn of ty runs through with arg, FALSE when an assertion panics.
asserts_hold(ty, fn, arg) ==
    CASE ty = "mesh3d::Contour" /\ fn = "width" ->
            usize_le(<<0, 1>>, arg) /\ usize_le(arg, <<0, 16>>)
      [] ty = "mesh3d::Lighting" /\ fn = "fresnel" ->
            f64_le(F(<<"0">>, "0"), arg) /\ f64_le(arg, F(<<"5">>, "0"))
      [] ty = "mesh3d::Lighting" /\ fn = "specular" ->
            f64_le(F(<<"0">>, "0"), arg) /\ f64_le(arg, F(<<"2">>, "0"))
      [] ty = "mesh3d::Lighting" /\ fn \notin {"fresnel", "specular"} ->
            f64_le(F(<<"0">>, "0"), arg) /\ f64_le(arg, F(<<"1">>, "0"))
      [] ty = "mesh3d::LightPosition" ->
            \A i \in DOMAIN arg : f64_le(F64NegLimit, arg[i]) /\ f64_le(arg[i], F64Limit)
      [] OTHER -> TRUE

\* How serde writes a field's value, by the field's type.  A value of a
\* crate::common type is written by that type's own Serialize impl.
JExt(x) == [t |-> "value", v |-> x]
serialize_vec_f64(v) == JArr([i \in 1..Len(v) |-> serialize_f64(v[i])])
serialize_seq_str(v) == JArr([i \in 1..Len(v) |-> serialize_str(v[i])])
serialize_seq_ext(v) == JArr([i \in 1..Len(v) |-> JExt(v[i])])
\* Dim<T> is untagged: Scalar(x) is written as x, Vector(v) as an array.
serialize_Dim_str(d) ==
    IF d.dim = "Scalar" THEN serialize_str(d.v[1]) ELSE serialize_seq_str(d.v)
serialize_Dim_ext(d) ==
    IF d.dim = "Scalar" THEN JExt(d.v[1]) ELSE serialize_seq_ext(d.v)
serialize_value(ser, x) ==
    CASE ser = "ext"         -> JExt(x)
      [] ser = "str"         -> serialize_str(x)
      [] ser = "bool"        -> JBool(x)
      [] ser = "f64"         -> serialize_f64(x)
      [] ser = "usize"       -> serialize_u64(usize_as_u64(x))
      [] ser = "vec_f64"     -> serialize_vec_f64(x)
      [] ser = "vec_vec_f64" -> JArr([i \in 1..Len(x) |-> serialize_vec_f64(x[i])])
      [] ser = "vec_str"     -> serialize_seq_str(x)
      [] ser = "vec_usize"   ->
            JArr([i \in 1..Len(x) |-> serialize_u64(usize_as_u64(x[i]))])
      [] ser = "vec_ext"     -> serialize_seq_ext(x)
      [] ser = "dim_str"     -> serialize_Dim_str(x)
      [] ser = "dim_ext"     -> serialize_Dim_ext(x)

\* One member of the written object: serialize_field(key, value).
Member(key, value) == [key |-> key, value |-> value]

\* A faulty variant: no field carries skip_serializing_if.
RECURSIVE serialize_fields_no_skip(_, _, _)
serialize_fields_no_skip(t, fields, i) ==
    IF i > Len(fields) THEN <<>>
    ELSE LET fd == fields[i]
             x  == t.f[fd.name]
             m  == IF ~fd.option THEN <<Member(fd.key, serialize_value(fd.ser, x))>>
                   ELSE IF Len(x) = 0
                        THEN <<Member(fd.key, JNull)>>
                        ELSE <<Member(fd.key, serialize_value(fd.ser, x[1]))>>
         IN  m \o serialize_fields_no_skip(t, fields, i + 1)

to_json_no_skip(t) == serialize_fields_no_skip(t, Fields(t.ty), 1)

\* #[derive(Serialize)]: the fields in declaration order; an Option field
\* that is None is left out when skip applies and written as null otherwise.
RECURSIVE serialize_fields(_, _, _)
serialize_fields(t, fields, i) ==
    IF i > Len(fields) THEN <<>>
    ELSE LET fd == fields[i]
             x  == t.f[fd.name]
             m  == IF ~fd.option THEN <<Member(fd.key, serialize_value(fd.ser, x))>>
                   ELSE IF Len(x) = 0
                        THEN IF fd.skip THEN <<>> ELSE <<Member(fd.key, JNull)>>
                        ELSE <<Member(fd.key, serialize_value(fd.ser, x[1]))>>
         IN  m \o serialize_fields(t, fields, i + 1)

\* Trace::to_json (Trace::serialize for Scatter):
\* serde_json::to_string(&self).unwrap()
to_json(t) == serialize_fields(t, Fields(t.ty), 1)

\* A faulty variant: the call takes the name out of the trace (Option::take).
borrow_taking_name(t) == [t EXCEPT !.f["name"] = <<>>]

\* fn to_json(&self): the trace as the call leaves it.  The receiver is a
\* shared borrow, so the callee cannot write to it.
borrow(t) == t

\* Every Option field None.
NoneFields(ty) == [n \in FieldNames(ty) |-> <<>>]
\* A faulty variant: every constructor leaves the scatter tag.
PlotType_always_scatter(name) == Ext("PlotType", "Scatter")

\* PlotType::Scatter, PlotType::Mesh3D, PlotType::Surface
PlotType(name) == Ext("PlotType", name)

\* A faulty variant: the elements are collected back to front.
copy_iterable_to_vec_reversed(it) == [i \in 1..Len(it) |-> it[Len(it) + 1 - i]]

\* private::copy_iterable_to_vec: iterable.into_iter().collect()
copy_iterable_to_vec(it) == [i \in 1..Len(it) |-> it[i]]

\* A faulty variant: x and y are cut to the shorter of the two.
Scatter_new_zipped(x, y) ==
    LET n == IF Len(x) < Len(y) THEN Len(x) ELSE Len(y)
    IN  [ty |-> "Scatter",
         f  |-> [NoneFields("Scatter") EXCEPT !["type"] = PlotType("Scatter"),
                                              !["x"] = SubSeq(x, 1, n),
                                              !["y"] = SubSeq(y, 1, n)]]

Scatter_new(x, y) ==
    [ty |-> "Scatter",
     f  |-> [NoneFields("Scatter") EXCEPT !["type"] = PlotType("Scatter"),
                                          !["x"] = x, !["y"] = y]]
Mesh3D_new(x, y, z, i, j, k) ==
    [ty |-> "Mesh3D",
     f  |-> [NoneFields("Mesh3D") EXCEPT !["type"] = PlotType("Mesh3D"),
                                         !["x"] = <<copy_iterable_to_vec(x)>>,
                                         !["y"] = <<copy_iterable_to_vec(y)>>,
                                         !["z"] = <<copy_iterable_to_vec(z)>>,
                                         !["i"] = <<copy_iterable_to_vec(i)>>,
                                         !["j"] = <<copy_iterable_to_vec(j)>>,
                                         !["k"] = <<copy_iterable_to_vec(k)>>]]
Surface_new(z) ==
    [ty |-> "Surface",
     f  |-> [NoneFields("Surface") EXCEPT !["type"] = PlotType("Surface"),
                                          !["z"] = z]]

\* Sample constructor arguments.
CoordVecs  == {VecF64A, VecF64B}
IndexVec   == << <<0, 0>>, <<0, 1>> >>
Grids      == { <<VecF64A, VecF64A>>, <<VecF64A, VecF64B>> }

TraceInit ==
    /\ \/ \E y \in CoordVecs :
              /\ given = <<VecF64A, y>>
              /\ trace = Scatter_new(VecF64A, y)
       \/ LET z == << <<"2", ".", "0">>, <<"1", ".", "0">>, <<"2", ".", "0">> >>
              j == << <<0, 1>>, <<0, 2>> >>
              k == << <<0, 2>>, <<0, 0>>, <<0, 2>> >>
          IN  /\ given = <<VecF64A, VecF64B, z, IndexVec, j, k>>
              /\ trace = Mesh3D_new(VecF64A, VecF64B, z, IndexVec, j, k)
       \/ \E z \in Grids :
              /\ given = <<z>>
              /\ trace = Surface_new(z)
    /\ chain = <<>>
    /\ out = <<>>
    /\ panicked = FALSE
TracePark ==
    /\ given = <<>>
    /\ trace = [ty |-> "none", f |-> <<>>]
    /\ chain = <<>>
    /\ out = <<>>
    /\ panicked = FALSE

Call(fn, arg) == [fn |-> fn, arg |-> <<arg>>]

\* One setter call on the trace: trace = trace.<fn>(arg)
CallSetter(ty) ==
    /\ trace.ty = ty
    /\ Len(chain) < MaxChain
    /\ \E s \in Setters(ty) : \E arg \in ArgValues(s.param) :
          /\ trace' = apply_setter(trace, s, arg)
          /\ chain' = Append(chain, Call(s.fn, arg))
    /\ out' = <<>>
    /\ UNCHANGED <<given, panicked>>
ScatterSetter == CallSetter("Scatter")
Mesh3DSetter  == CallSetter("Mesh3D")
SurfaceSetter == CallSetter("Surface")

\* <option struct>::new(): Default::default(), every field None.
OptionInit ==
    /\ \E ty \in Mesh3DOptionTypes \cup SurfaceOptionTypes :
          trace = [ty |-> ty, f |-> NoneFields(ty)]
    /\ given = <<>>
    /\ chain = <<>>
    /\ out = <<>>
    /\ panicked = FALSE

\* One setter call on an option struct: either an assertion panics, and the
\* struct, moved into the call, is dropped, or the field is set and the
\* struct returned.
CallOptionSetter(types) ==
    /\ trace.ty \in types
    /\ ~panicked
    /\ Len(chain) < MaxChain
    /\ \E s \in Setters(trace.ty) : \E arg \in OptionArgValues(s.param) :
          /\ chain' = Append(chain, Call(s.fn, arg))
          /\ IF asserts_hold(trace.ty, s.fn, arg)
             THEN trace' = apply_setter(trace, s, arg) /\ panicked' = FALSE
             ELSE trace' = [ty |-> trace.ty, f |-> <<>>] /\ panicked' = TRUE
    /\ UNCHANGED <<given, out>>
Mesh3DOptionSetter  == CallOptionSetter(Mesh3DOptionTypes)
SurfaceOptionSetter == CallOptionSetter(SurfaceOptionTypes)

\* trace.to_json(): takes &self, returns the JSON text.
ToJson ==
    /\ trace.ty \in TraceTypes
    /\ Len(out) < MaxSerialize
    /\ out' = Append(out, to_json(trace))
    /\ trace' = borrow(trace)
    /\ UNCHANGED <<given, chain, panicked>>

\* One call of Mesh3D::facecolor, Mesh3D::vertexcolor or Mesh3D::color, with
\* one of two colors, or vectors of them, as the argument.
Mesh3DColorSetter ==
    /\ trace.ty = "Mesh3D"
    /\ Len(chain) < MaxColorChain
    /\ \E s \in {s \in Mesh3DSetters : s.fn \in {"facecolor", "vertexcolor", "color"}} :
       \E c \in {ColorValue, Ext("Color", <<"#", "f", "f">>)} :
          LET arg == IF s.param = "Vec<C>" THEN <<c, ColorValue>> ELSE c
          IN  /\ trace' = apply_setter(trace, s, arg)
              /\ chain' = Append(chain, Call(s.fn, arg))
    /\ out' = <<>>
    /\ UNCHANGED <<given, panicked>>

(***************************************************************************)
(* The vector conversions: to_color_array and to_num_or_string_wrapper     *)
(* (private/mod.rs) and the boxing of Mesh3D::facecolor / vertexcolor.     *)
(* A Vec<C> holds values of one type C: kind names the type, items are the *)
(* values, each written as its characters or its limbs.                    *)
(***************************************************************************)
VecInputs ==
    { [kind |-> "numeric", items |-> s] :
          s \in SeqsUpTo({<<"0", ".", "5">>, <<"2", "5", "5", ".", "0">>}, MaxArrayLen) }
    \cup { [kind |-> "textual", items |-> s] :
          s \in SeqsUpTo({<<"r", "e", "d">>, <<"#", "f", "f">>}, MaxArrayLen) }
    \cup { [kind |-> "f64", items |-> s] :
          s \in SeqsUpTo({<<"0", ".", "5">>, F64NaN}, MaxArrayLen) }
    \cup { [kind |-> "&str", items |-> s] : s \in SeqsUpTo({TextTrue, <<"a">>}, MaxArrayLen) }
    \cup { [kind |-> "i32", items |-> s] :
          s \in SeqsUpTo({<<0, 1>>, <<LimbBase - 1, LimbBase - 1>>}, MaxArrayLen) }

\* Color::to_color: a numeric color gives ColorWrapper::F, a textual one
\* ColorWrapper::S.
to_color(kind, c) == IF kind = "numeric" THEN ColorF(c) ELSE ColorS(c)

\* A faulty variant: the entries are pushed at the front.
to_color_array_reversed(x) ==
    [i \in 1..Len(x.items) |-> to_color(x.kind, x.items[Len(x.items) + 1 - i])]

\* for e in v.iter() { sv.push(e.to_color()); }
to_color_array(x) == [i \in 1..Len(x.items) |-> to_color(x.kind, x.items[i])]

\* for e in v.iter() { sv.push(e.to_num_or_string()); }
to_num_or_string_wrapper(x) ==
    [i \in 1..Len(x.items) |-> to_num_or_string(Source(x.kind, x.items[i]))]

VecInit ==
    /\ vec \in VecInputs
    /\ converted = NotConverted
    /\ a = <<>>
    /\ valid = <<>>

\* to_color_array(v); the result is what is_valid_color_array is called on.
CallToColorArray ==
    /\ vec.kind \in {"numeric", "textual"}
    /\ converted.by = "none"
    /\ converted' = [by |-> "to_color_array", result |-> to_color_array(vec)]
    /\ a' = to_color_array(vec)
    /\ UNCHANGED <<vec, valid>>

\* to_num_or_string_wrapper(v)
CallToNumOrStringWrapper ==
    /\ vec.kind \in {"f64", "&str", "i32"}
    /\ converted.by = "none"
    /\ converted' = [by |-> "to_num_or_string_wrapper",
                     result |-> to_num_or_string_wrapper(vec)]
    /\ UNCHANGED <<vec, a, valid>>

\* Mesh3D::facecolor / vertexcolor: the colors boxed one by one.
CallFacecolor ==
    /\ vec.kind \in {"numeric", "textual"}
    /\ converted.by = "none"
    /\ converted' = [by |-> "facecolor", result |-> map_Box_new(vec.items)]
    /\ UNCHANGED <<vec, a, valid>>

(***************************************************************************)
(* The bindings to plotly.js (bindings.rs): new_plot and react.            *)
(***************************************************************************)
\* JSON values the text of a plot can stand for; a number's payload is
\* written as serialize_f64 leaves it.
JsValues ==
    LET One == JNum([sort |-> "float", mag |-> <<"1">>])
    IN
    << JObj(<<>>),
       JObj(<<Member("a", One)>>),
       JObj(<<Member("a", JArr(<<One>>)), Member("t", JStr(<<"a">>))>>),
       JArr(<<>>),
       JArr(<<One, JNull>>),
       One,
       JNull,
       JStr(<<"a">>) >>

\* The JSON text of a value; the keys are one-character names.
RECURSIVE write(_)
RECURSIVE write_all(_, _)
write_all(items, member) ==
    IF Len(items) = 0 THEN <<>>
    ELSE (IF member
          THEN <<Quote, Head(items).key, Quote, ":">> \o write(Head(items).value)
          ELSE write(Head(items)))
         \o (IF Len(items) > 1 THEN <<",">> ELSE <<>>)
         \o write_all(Tail(items), member)
write(v) ==
    CASE v.t = "null"   -> <<"n", "u", "l", "l">>
      [] v.t = "number" -> v.v.mag
      [] v.t = "string" -> <<Quote>> \o escape(v.v) \o <<Quote>>
      [] v.t = "array"  -> <<"[">> \o write_all(v.v, FALSE) \o <<"]">>
      [] v.t = "object" -> <<"{">> \o write_all(v.v, TRUE) \o <<"}">>

\* What plot.to_json() may return: the text of a value, or a text that is
\* not JSON.
PlotTexts ==
    {write(JsValues[n]) : n \in DOMAIN JsValues}
        \cup { <<>>, <<"{">>, <<"{", Quote, "a", Quote, ":", "1">>,
               <<"[", "1", ",", "]">>, <<"a">> }

\* js_sys::JSON::parse: Ok(value) for the text of a value, Err otherwise.
JSON_parse(text) ==
    IF \E n \in DOMAIN JsValues : write(JsValues[n]) = text
    THEN [ok |-> TRUE,
          val |-> <<JsValues[CHOOSE n \in DOMAIN JsValues : write(JsValues[n]) = text]>>]
    ELSE [ok |-> FALSE, val |-> <<>>]

\* A faulty variant: the cast is not checked (unchecked_into).
is_instance_of_Object_unchecked(v) == TRUE

\* dyn_into::<Object>(): the cast succeeds when the value is an instance of
\* the JavaScript Object, which an array is as well; null, numbers and
\* strings are not.
is_instance_of_Object(v) == v.t \in {"object", "array"}

\* A faulty variant: both operations reach Plotly.newPlot.
entry_point_always_new(fn) == "Plotly.newPlot"

\* new_plot_ is bound to Plotly.newPlot, react_ to Plotly.react.
entry_point(fn) == IF fn = "new_plot" THEN "Plotly.newPlot" ELSE "Plotly.react"

BindingsInit ==
    /\ op = "none"
    /\ divId \in {"plot", "chart", ""}
    /\ plotJson \in PlotTexts
    /\ pc = "start"
    /\ calls = <<>>
    /\ outcome = "none"
    /\ panic = ""
BindingsPark ==
    /\ op = "none"
    /\ divId = ""
    /\ plotJson = <<>>
    /\ pc = "parked"
    /\ calls = <<>>
    /\ outcome = "none"
    /\ panic = ""

\* A faulty variant: the operation takes the plot's content and leaves an
\* empty plot behind.
Render_taking_plot(fn) ==
    /\ pc = "start"
    /\ op' = fn
    /\ LET parsed == JSON_parse(plotJson)
       IN  IF ~parsed.ok
           THEN /\ pc' = "panicked"
                /\ panic' = "Invalid JSON"
                /\ UNCHANGED calls
           ELSE IF ~is_instance_of_Object(parsed.val[1])
           THEN /\ pc' = "panicked"
                /\ panic' = "Invalid JSON structure - expected a top-level Object"
                /\ UNCHANGED calls
           ELSE /\ calls' = Append(calls, [entry |-> entry_point(fn), id |-> divId,
                                           obj |-> parsed.val[1]])
                /\ pc' = "awaiting"
                /\ UNCHANGED panic
    /\ plotJson' = <<"{", "}">>
    /\ UNCHANGED <<divId, outcome>>

\* The body of new_plot / react up to the await: parse the plot's JSON,
\* cast it to Object, call the external function.
Render(fn) ==
    /\ pc = "start"
    /\ op' = fn
    /\ LET parsed == JSON_parse(plotJson)
       IN  IF ~parsed.ok
           THEN /\ pc' = "panicked"
                /\ panic' = "Invalid JSON"
                /\ UNCHANGED calls
           ELSE IF ~is_instance_of_Object(parsed.val[1])
           THEN /\ pc' = "panicked"
                /\ panic' = "Invalid JSON structure - expected a top-level Object"
                /\ UNCHANGED calls
           ELSE /\ calls' = Append(calls, [entry |-> entry_point(fn), id |-> divId,
                                           obj |-> parsed.val[1]])
                /\ pc' = "awaiting"
                /\ UNCHANGED panic
    /\ UNCHANGED <<divId, plotJson, outcome>>
NewPlot == Render("new_plot")
React   == Render("react")

\* The awaited promise resolves: .await yields Ok and the operation returns.
Resolve ==
    /\ pc = "awaiting"
    /\ outcome' = "Ok"
    /\ pc' = "returned"
    /\ UNCHANGED <<op, divId, plotJson, calls, panic>>

\* The awaited promise is rejected: .await yields Err and expect panics.
Reject ==
    /\ pc = "awaiting"
    /\ outcome' = "Err"
    /\ pc' = "panicked"
    /\ panic' = "Error plotting chart"
    /\ UNCHANGED <<op, divId, plotJson, calls>>

\* The caller, after an operation returned, starts another one on the same
\* plot: both operations take plot: &Plot and leave it with the caller.
CallAgain ==
    /\ pc = "returned"
    /\ Len(calls) < MaxRenders
    /\ pc' = "start"
    /\ outcome' = "none"
    /\ UNCHANGED <<op, divId, plotJson, calls, panic>>

(***************************************************************************)
(* Specifications: one per component, the other components at rest.        *)
(***************************************************************************)
InitTruthy == TruthyInit /\ ColorPark /\ NumPark /\ TracePark /\ BindingsPark
NextTruthy == SerializeTruthyEnum /\ UNCHANGED <<colorVars, numVars, traceVars, bindingVars>>
SpecTruthy == InitTruthy /\ [][NextTruthy]_vars

InitColor == (ColorInit \/ VecInit) /\ TruthyPark /\ NumPark /\ TracePark /\ BindingsPark
NextColor ==
    \/ CallIsValidColorArray /\ UNCHANGED <<truthyVars, numVars, traceVars, bindingVars>>
    \/ CallToColorArray /\ UNCHANGED <<truthyVars, numVars, traceVars, bindingVars>>
    \/ CallToNumOrStringWrapper /\ UNCHANGED <<truthyVars, numVars, traceVars, bindingVars>>
    \/ CallFacecolor /\ UNCHANGED <<truthyVars, numVars, traceVars, bindingVars>>
SpecColor == InitColor /\ [][NextColor]_vars

InitNum == NumInit /\ TruthyPark /\ ColorPark /\ TracePark /\ BindingsPark
NextNum ==
    \/ CallToNumOrString /\ UNCHANGED <<truthyVars, colorVars, traceVars, bindingVars>>
    \/ SerializeNumOrStringWrapper /\ UNCHANGED <<truthyVars, colorVars, traceVars, bindingVars>>
SpecNum == InitNum /\ [][NextNum]_vars

InitTrace == (TraceInit \/ OptionInit) /\ TruthyPark /\ ColorPark /\ NumPark /\ BindingsPark
NextTrace ==
    \/ ScatterSetter /\ UNCHANGED <<truthyVars, colorVars, numVars, bindingVars>>
    \/ Mesh3DSetter /\ UNCHANGED <<truthyVars, colorVars, numVars, bindingVars>>
    \/ SurfaceSetter /\ UNCHANGED <<truthyVars, colorVars, numVars, bindingVars>>
    \/ Mesh3DOptionSetter /\ UNCHANGED <<truthyVars, colorVars, numVars, bindingVars>>
    \/ SurfaceOptionSetter /\ UNCHANGED <<truthyVars, colorVars, numVars, bindingVars>>
    \/ ToJson /\ UNCHANGED <<truthyVars, colorVars, numVars, bindingVars>>
SpecTrace == InitTrace /\ [][NextTrace]_vars

InitMeshColor ==
    TraceInit /\ trace.ty = "Mesh3D" /\ TruthyPark /\ ColorPark /\ NumPark /\ BindingsPark
NextMeshColor ==
    \/ Mesh3DColorSetter /\ UNCHANGED <<truthyVars, colorVars, numVars, bindingVars>>
    \/ ToJson /\ UNCHANGED <<truthyVars, colorVars, numVars, bindingVars>>
SpecMeshColor == InitMeshColor /\ [][NextMeshColor]_vars

InitBindings == BindingsInit /\ TruthyPark /\ ColorPark /\ NumPark /\ TracePark
NextBindings ==
    \/ NewPlot /\ UNCHANGED <<truthyVars, colorVars, numVars, traceVars>>
    \/ React /\ UNCHANGED <<truthyVars, colorVars, numVars, traceVars>>
    \/ Resolve /\ UNCHANGED <<truthyVars, colorVars, numVars, traceVars>>
    \/ Reject /\ UNCHANGED <<truthyVars, colorVars, numVars, traceVars>>
SpecBindings == InitBindings /\ [][NextBindings]_vars

NextRenderTwice ==
    \/ NewPlot /\ UNCHANGED <<truthyVars, colorVars, numVars, traceVars>>
    \/ React /\ UNCHANGED <<truthyVars, colorVars, numVars, traceVars>>
    \/ Resolve /\ UNCHANGED <<truthyVars, colorVars, numVars, traceVars>>
    \/ Reject /\ UNCHANGED <<truthyVars, colorVars, numVars, traceVars>>
    \/ CallAgain /\ UNCHANGED <<truthyVars, colorVars, numVars, traceVars>>
SpecRenderTwice == InitBindings /\ [][NextRenderTwice]_vars

(***************************************************************************)
(* Properties of TruthyEnum, checked under SpecTruthy.                     *)
(***************************************************************************)
\* The JSON text of a value without its first and last character when both
\* are quotes: the text with the surrounding quotes stripped.
StripSurroundingQuotes(s) ==
    IF Len(s) >= 2 /\ s[1] = Quote /\ s[Len(s)] = Quote
    THEN SubSeq(s, 2, Len(s) - 1)
    ELSE s

\* C1: a wrapped value whose text is exactly true (false), as a string or
\* as a literal, is emitted as the native boolean true (false), never as a
\* JSON string.
C1_TrueFalseAreBooleans ==
    (emitted.t # "none" /\ e.kind \in {"str", "bool"}) =>
        /\ e.val = TextTrue  => (emitted.t = "bool" /\ emitted.v = TextTrue)
        /\ e.val = TextFalse => (emitted.t = "bool" /\ emitted.v = TextFalse)
C1_Witness ==
    /\ e.kind = "str" /\ e.val = TextFalse
    /\ emitted.t = "bool" /\ emitted.v = TextFalse

\* C2: every wrapped value whose text is not true or false is emitted as
\* the JSON string that is its JSON text with the surrounding quotes
\* stripped, also when the text itself contains quote characters.
C2_StringIsStrippedText ==
    (emitted.t # "none" /\ e.kind = "str" /\ e.val \notin {TextTrue, TextFalse}) =>
        /\ emitted.t = "string"
        /\ emitted.v = StripSurroundingQuotes(to_string(e))

\* C3: a near miss of true/false (True, TRUE, False, " true", truee) is
\* never emitted as a boolean: it is emitted as a JSON string of that text.
C3_NearMissIsString ==
    (emitted.t # "none" /\ e.kind = "str" /\ e.val \in NearMissTexts) =>
        (emitted.t = "string" /\ emitted.v = e.val)
C3_Witness ==
    /\ e.kind = "str" /\ e.val = <<"T", "r", "u", "e">>
    /\ emitted.t = "string" /\ emitted.v = <<"T", "r", "u", "e">>

(***************************************************************************)
(* Properties of is_valid_color_array, checked under SpecColor.            *)
(***************************************************************************)
\* C4: the result is true iff the array holds at least one F entry and at
\* least one S entry; it is false for the empty, the all-numeric and the
\* all-textual array, whatever the length and the order.
C4_MixedIffBothKinds ==
    valid # <<>> =>
        (valid[1] <=> ( /\ \E i \in DOMAIN a : a[i].tag = "F"
                        /\ \E i \in DOMAIN a : a[i].tag = "S" ))
C4_Witness ==
    /\ Len(a) = 3 /\ a[1].tag = "S" /\ a[2].tag = "S" /\ a[3].tag = "F"
    /\ valid = <<TRUE>>

(***************************************************************************)
(* Properties of NumOrString, checked under SpecNum.                       *)
(***************************************************************************)
\* C5: to_num_or_string is total and keeps the value: a string source
\* gives S with the same text, an f64 gives F with the same value, an i32
\* or i64 gives I with the same signed value, a usize gives U with the
\* same unsigned value; no source gives a variant of another kind.
C5_ConversionKeepsValue ==
    wrapper.tag # "none" =>
        /\ source.ty \in StringTypes => (wrapper.tag = "S" /\ wrapper.val = source.val)
        /\ source.ty = "f64" => (wrapper.tag = "F" /\ wrapper.val = source.val)
        /\ source.ty \in {"i32", "i64"} =>
              /\ wrapper.tag = "I" /\ Len(wrapper.val) = 4
              /\ SignedForm(wrapper.val) = SignedForm(source.val)
        /\ source.ty = "usize" =>
              /\ wrapper.tag = "U" /\ Len(wrapper.val) = 4
              /\ UnsignedForm(wrapper.val) = UnsignedForm(source.val)
\* A negative i32 has been converted.
C5_Witness ==
    /\ source.ty = "i32" /\ source.val = <<LimbBase - 1, LimbSign>>
    /\ wrapper.tag = "I"

\* C6 as stated: the S variant serializes to a JSON string and the F, I
\* and U variants to a JSON number, with no wrapper object.
C6_ScalarIsStringOrNumber ==
    scalar.t # "none" =>
        /\ wrapper.tag = "S" => scalar.t = "string"
        /\ wrapper.tag \in {"F", "I", "U"} => scalar.t = "number"

\* C6, amended: the wrapper serializes to the bare scalar, never to an
\* object or array: S to the JSON string of its text, I and U to a JSON
\* number, F to a JSON number when the float is finite and to null when it
\* is NaN or infinite.
C6_BareScalar ==
    scalar.t # "none" =>
        /\ scalar.t \in {"string", "number", "null"}
        /\ wrapper.tag = "S" => (scalar.t = "string" /\ scalar.v = wrapper.val)
        /\ wrapper.tag \in {"I", "U"} => scalar.t = "number"
        /\ wrapper.tag = "F" =>
              scalar.t = (IF is_finite(wrapper.val) THEN "number" ELSE "null")
C6_Witness ==
    /\ wrapper.tag = "F" /\ wrapper.val = F64NaN
    /\ scalar.t = "null"


(***************************************************************************)
(* Properties of the trace builders.                                       *)
(***************************************************************************)
SetterOf(fn) == CHOOSE s \in Setters(trace.ty) : s.fn = fn
FieldOf(name) ==
    LET fields == Fields(trace.ty)
    IN  fields[CHOOSE i \in DOMAIN fields : fields[i].name = name]
SettableFields == {s.field : s \in Setters(trace.ty)}
SetterCalled(name) == \E i \in DOMAIN chain : SetterOf(chain[i].fn).field = name
HasKey(doc, key) == \E m \in DOMAIN doc : doc[m].key = key
HasMember(doc, key, value) ==
    \E m \in DOMAIN doc :
        /\ doc[m].key = key
        /\ doc[m].value.t = value.t
        /\ doc[m].value.v = value.v
\* The call at position i is the last one in the chain that targets its field.
IsLastWrite(i) ==
    \A j \in DOMAIN chain :
        j > i => SetterOf(chain[j].fn).field # SetterOf(chain[i].fn).field

\* C7: after any sequence of setter calls, the written object has the key
\* of a field with a setter exactly when a setter for that field was
\* called, and no member of the object is null.
C7_KeyIffSetterCalled ==
    Len(out) > 0 =>
        LET doc    == out[Len(out)]
            fields == Fields(trace.ty)
        IN  /\ \A i \in DOMAIN fields :
                  fields[i].name \in SettableFields =>
                      (HasKey(doc, fields[i].key) <=> SetterCalled(fields[i].name))
            /\ \A m \in DOMAIN doc : doc[m].value.t # "null"

\* C8: Scatter::new(x, y) with no setter called writes an object whose
\* keys are exactly type, x and y.
C8_MinimalScatterKeys ==
    (trace.ty = "Scatter" /\ chain = <<>>) =>
        \A n \in DOMAIN out :
            /\ Len(out[n]) = 3
            /\ {out[n][m].key : m \in DOMAIN out[n]} = {"type", "x", "y"}
C8_Witness == trace.ty = "Scatter" /\ chain = <<>> /\ Len(out) > 0

\* C9: the last setter call that targets a field decides the field: the
\* field holds that call's argument and the written object carries it under
\* the field's key; the scalar setter of a scalar-or-array field leaves the
\* scalar, the array setter leaves the sequence.
C9_LastWriteWins ==
    Len(out) > 0 =>
        \A i \in DOMAIN chain :
            IsLastWrite(i) =>
                LET s   == SetterOf(chain[i].fn)
                    fd  == FieldOf(s.field)
                    arg == chain[i].arg[1]
                    doc == out[Len(out)]
                IN  /\ trace.f[s.field] = <<Stored(s, arg)>>
                    /\ HasMember(doc, fd.key, serialize_value(fd.ser, Stored(s, arg)))
                    /\ s.store = "Scalar_to_owned" => HasMember(doc, fd.key, JStr(arg))
                    /\ s.store = "Vector_owned_string_vector" =>
                          HasMember(doc, fd.key, JArr([k \in 1..Len(arg) |-> JStr(arg[k])]))
C9_Witness ==
    /\ Len(out) > 0
    /\ Len(chain) = 2
    /\ chain[1].fn = "text"
    /\ chain[2].fn = "text_array"

C11_GeometryKept ==
    /\ trace.ty = "Mesh3D" =>
          /\ trace.f["x"] = <<given[1]>>
          /\ trace.f["y"] = <<given[2]>>
          /\ trace.f["z"] = <<given[3]>>
          /\ trace.f["i"] = <<given[4]>>
          /\ trace.f["j"] = <<given[5]>>
          /\ trace.f["k"] = <<given[6]>>
    /\ trace.ty = "Scatter" => trace.f["x"] = given[1] /\ trace.f["y"] = given[2]
    /\ trace.ty = "Surface" => trace.f["z"] = given[1]
C11_Witness ==
    /\ trace.ty = "Mesh3D"
    /\ Len(chain) = MaxChain
    /\ Len(given[1]) > 1
    /\ Len(out) > 0

(***************************************************************************)
(* Properties of the option structs' setters.                              *)
(***************************************************************************)
Zero == F(<<"0">>, "0")
\* The documented range of each lighting coefficient is 0 to LightingMax.
LightingMax(fn) ==
    CASE fn = "fresnel"  -> F(<<"5">>, "0")
      [] fn = "specular" -> F(<<"2">>, "0")
      [] OTHER           -> F(<<"1">>, "0")
LightingInRange(fn, x) == f64_le(Zero, x) /\ f64_le(x, LightingMax(fn))
WidthInRange(w) == usize_le(<<0, 1>>, w) /\ usize_le(w, <<0, 16>>)
CoordInRange(x) == f64_le(F64NegLimit, x) /\ f64_le(x, F64Limit)
LastCall == chain[Len(chain)]

\* C12: every lighting setter of mesh3d::Lighting and surface::Lighting
\* aborts at the call when its argument is out of range, so no Lighting
\* value holds an out-of-range coefficient.
C12_LightingOutOfRangeAborts ==
    trace.ty \in {"mesh3d::Lighting", "surface::Lighting"} =>
        /\ \A i \in DOMAIN chain :
              ~LightingInRange(chain[i].fn, chain[i].arg[1]) =>
                  (panicked /\ i = Len(chain))
        /\ ~panicked =>
              \A i \in DOMAIN chain :
                  LET s == SetterOf(chain[i].fn)
                  IN  LightingInRange(s.fn, trace.f[s.field][1])

\* C13: mesh3d::Contour::width and surface::PlaneContours::width accept
\* exactly the widths 1..=16 and abort at the call for every other width.
C13_WidthOutOfRangeAborts ==
    trace.ty \in {"mesh3d::Contour", "surface::PlaneContours"} =>
        \A i \in DOMAIN chain :
            chain[i].fn = "width" =>
                IF WidthInRange(chain[i].arg[1])
                THEN ~(panicked /\ i = Len(chain))
                ELSE panicked /\ i = Len(chain)

\* C14 as stated: no builder call ever aborts.
C14_NoCallAborts == ~panicked

\* The call is one of the range-checked setters of traces/mesh3d.rs, with an
\* argument outside the checked range.
OutOfCheckedRange(call) ==
    CASE trace.ty = "mesh3d::Lighting" -> ~LightingInRange(call.fn, call.arg[1])
      [] trace.ty = "mesh3d::Contour" /\ call.fn = "width" -> ~WidthInRange(call.arg[1])
      [] trace.ty = "mesh3d::LightPosition" ->
            \E i \in DOMAIN call.arg[1] : ~CoordInRange(call.arg[1][i])
      [] OTHER -> FALSE

\* C14, amended: a builder call aborts exactly when it is a range-checked
\* setter of mesh3d::Lighting, mesh3d::Contour (width) or
\* mesh3d::LightPosition called with an out-of-range argument; every other
\* call returns the instance with the field set to the argument.
C14_AbortsOnlyOutOfCheckedRange ==
    /\ panicked <=> (Len(chain) > 0 /\ OutOfCheckedRange(LastCall))
    /\ \A i \in DOMAIN chain : i < Len(chain) => ~OutOfCheckedRange(chain[i])
    /\ (~panicked /\ Len(chain) > 0) =>
          LET s == SetterOf(LastCall.fn)
          IN  trace.f[s.field] = <<Stored(s, LastCall.arg[1])>>
C14_Witness ==
    /\ panicked
    /\ trace.ty = "mesh3d::Lighting"
    /\ Len(chain) = 2

(***************************************************************************)
(* Properties of the bindings, checked under SpecBindings.                 *)
(***************************************************************************)
Parsed == JSON_parse(plotJson)
SameValue(v, w) == v.t = w.t /\ v = w

\* C15: a render operation calls its own external entry point once and
\* never the other one: new_plot calls Plotly.newPlot, react calls
\* Plotly.react, with the id it was given and the object parsed from the
\* plot's JSON.
C15_OneCallToOwnEntryPoint ==
    /\ Len(calls) <= 1
    /\ pc \in {"awaiting", "returned"} => Len(calls) = 1
    /\ \A n \in DOMAIN calls :
          /\ op = "new_plot" => calls[n].entry = "Plotly.newPlot"
          /\ op = "react" => calls[n].entry = "Plotly.react"
          /\ calls[n].id = divId
          /\ Parsed.ok /\ SameValue(calls[n].obj, Parsed.val[1])
C15_Witness ==
    /\ pc = "returned"
    /\ op = "react"
    /\ Len(calls) = 1
    /\ calls[1].obj.t = "object"
    /\ Len(calls[1].obj.v) > 0

C17_DimKeepsShapeAndContent ==
    \A i \in DOMAIN chain :
        (trace.ty \in TraceTypes /\ IsLastWrite(i)) =>
            LET s    == SetterOf(chain[i].fn)
                fd   == FieldOf(s.field)
                arg  == chain[i].arg[1]
                held == trace.f[s.field][1]
            IN  /\ s.store \in {"Scalar_to_owned", "Scalar"} =>
                      /\ held.dim = "Scalar"
                      /\ held.v = <<arg>>
                /\ s.store \in {"Vector_owned_string_vector", "Vector"} =>
                      /\ held.dim = "Vector"
                      /\ Len(held.v) = Len(arg)
                      /\ \A k \in DOMAIN arg : held.v[k] = arg[k]
                /\ (Len(out) > 0 /\ s.store = "Scalar_to_owned") =>
                      HasMember(out[Len(out)], fd.key, JStr(arg))
                /\ (Len(out) > 0 /\ s.store = "Vector_owned_string_vector") =>
                      \E m \in DOMAIN out[Len(out)] :
                          LET member == out[Len(out)][m]
                          IN  /\ member.key = fd.key
                              /\ member.value.t = "array"
                              /\ Len(member.value.v) = Len(arg)
                              /\ \A k \in DOMAIN arg : member.value.v[k] = JStr(arg[k])
C17_Witness ==
    /\ Len(out) > 0
    /\ Len(chain) > 0
    /\ LastCall.fn = "text_array"
    /\ Len(LastCall.arg[1]) = 3
    /\ LastCall.arg[1][1] = LastCall.arg[1][3]

\* C18: to_color_array keeps length and order, its i-th entry being
\* to_color of the i-th input, so a numeric input gives an all-numeric array
\* and a textual input an all-textual one, and is_valid_color_array of the
\* result is false; to_num_or_string_wrapper and the boxing of facecolor /
\* vertexcolor keep length and order too.
C18_ConversionsKeepOrderAndLength ==
    /\ converted.by # "none" => Len(converted.result) = Len(vec.items)
    /\ converted.by = "to_color_array" =>
          /\ \A i \in DOMAIN vec.items :
                /\ converted.result[i].tag = (IF vec.kind = "numeric" THEN "F" ELSE "S")
                /\ converted.result[i].val = vec.items[i]
          /\ a = converted.result
          /\ valid # <<>> => valid = <<FALSE>>
    /\ converted.by = "to_num_or_string_wrapper" =>
          \A i \in DOMAIN vec.items :
              converted.result[i] = to_num_or_string(Source(vec.kind, vec.items[i]))
    /\ converted.by = "facecolor" =>
          \A i \in DOMAIN vec.items : converted.result[i] = vec.items[i]
C18_Witness ==
    /\ converted.by = "to_color_array"
    /\ Len(vec.items) = 3
    /\ vec.items[1] # vec.items[3]
    /\ valid = <<FALSE>>


(***************************************************************************)
(* Properties of the constructors and of chains of setters.                *)
(***************************************************************************)
\* C19: the chart-type tag is fixed and always written: after the
\* constructor and any setters a Scatter's type is PlotType::Scatter, a
\* Mesh3D's is PlotType::Mesh3D and a Surface's is PlotType::Surface, and
\* every written object has the key type with that tag as its value.
C19_TypeFixedAndEmitted ==
    trace.ty \in TraceTypes =>
        /\ trace.f["type"] = Ext("PlotType", trace.ty)
        /\ \A n \in DOMAIN out :
              HasMember(out[n], "type", JExt(Ext("PlotType", trace.ty)))
C19_Witness ==
    /\ trace.ty = "Surface"
    /\ Len(chain) = MaxChain
    /\ Len(out) = MaxSerialize

\* The trace as its constructor returned it.
Constructed ==
    CASE trace.ty = "Scatter" -> Scatter_new(given[1], given[2])
      [] trace.ty = "Mesh3D"  -> Mesh3D_new(given[1], given[2], given[3],
                                            given[4], given[5], given[6])
      [] trace.ty = "Surface" -> Surface_new(given[1])
      [] OTHER                -> [ty |-> trace.ty, f |-> NoneFields(trace.ty)]
RECURSIVE ApplyCalls(_, _)
ApplyCalls(t, cs) ==
    IF cs = <<>> THEN t
    ELSE ApplyCalls(apply_setter(t, SetterOf(cs[1].fn), cs[1].arg[1]), Tail(cs))
EachFieldSetOnce ==
    \A i, j \in DOMAIN chain :
        i # j => SetterOf(chain[i].fn).field # SetterOf(chain[j].fn).field

\* C20: the order of setter calls on different fields does not matter: when
\* every call of the chain targets a field of its own, the calls applied in
\* any order to the constructed value give the trace that the chain gave,
\* and the same written object.
C20_SettersCommute ==
    (~panicked /\ EachFieldSetOnce) =>
        \A p \in Permutations(DOMAIN chain) :
            LET permuted == ApplyCalls(Constructed, [i \in DOMAIN chain |-> chain[p[i]]])
            IN  /\ permuted = trace
                /\ to_json(permuted) = to_json(trace)
                /\ \A n \in DOMAIN out : out[n] = to_json(permuted)
C20_Witness ==
    /\ trace.ty = "Scatter"
    /\ Len(chain) = 2
    /\ chain[1].fn = "name"
    /\ chain[2].fn = "mode"
    /\ Len(out) > 0


(***************************************************************************)
(* Properties of the output keys of Mesh3D and Surface.                    *)
(***************************************************************************)
\* C21: in every object written for a Mesh3D no two members have the same
\* key, and a set z_calendar is written under zcalendar, apart from the y
\* calendar's ycalendar.
C21_Mesh3DKeysDistinct ==
    trace.ty = "Mesh3D" =>
        \A n \in DOMAIN out :
            /\ \A m1, m2 \in DOMAIN out[n] :
                  m1 # m2 => out[n][m1].key # out[n][m2].key
            /\ SetterCalled("z_calendar") => HasKey(out[n], "zcalendar")

\* The setters that Mesh3D and Surface both have, as <<name on Mesh3D, name
\* on Surface>>; the light position's setter is spelled differently.
CommonSetters ==
    { <<s.fn, s.fn>> : s \in {s \in Mesh3DSetters : \E u \in SurfaceSetters : u.fn = s.fn} }
        \cup { <<"lightposition", "light_position">> }
KeyOf(ty, fn) ==
    LET s      == CHOOSE s \in Setters(ty) : s.fn = fn
        fields == Fields(ty)
    IN  fields[CHOOSE i \in DOMAIN fields : fields[i].name = s.field].key

\* C22: a setter that Mesh3D and Surface both have writes its value under
\* the same key on both: an object written after the setter was called
\* has the key that the other type uses for that setter.
C22_CommonSettersSameKey ==
    (trace.ty \in {"Mesh3D", "Surface"} /\ chain # <<>>) =>
        \A p \in CommonSetters :
            LET here  == IF trace.ty = "Mesh3D" THEN p[1] ELSE p[2]
                there == IF trace.ty = "Mesh3D"
                         THEN KeyOf("Surface", p[2]) ELSE KeyOf("Mesh3D", p[1])
            IN  LastCall.fn = here =>
                    \A n \in DOMAIN out : HasKey(out[n], there)


(***************************************************************************)
(* Properties of mesh3d::Lighting and mesh3d::LightPosition.               *)
(***************************************************************************)
\* C23: a setter of mesh3d::Lighting accepts exactly the values of its
\* range, bounds included, and aborts for every other value; an accepted
\* value is stored as given, so every set coefficient is within its range.
C23_LightingAcceptsExactlyRange ==
    trace.ty = "mesh3d::Lighting" =>
        /\ \A i \in DOMAIN chain :
              IF LightingInRange(chain[i].fn, chain[i].arg[1])
              THEN ~(panicked /\ i = Len(chain))
              ELSE panicked /\ i = Len(chain)
        /\ ~panicked =>
              /\ \A i \in DOMAIN chain :
                    IsLastWrite(i) =>
                        trace.f[SetterOf(chain[i].fn).field] = chain[i].arg
              /\ \A s \in Setters(trace.ty) :
                    Len(trace.f[s.field]) > 0 =>
                        LightingInRange(s.fn, trace.f[s.field][1])
C23_Witness ==
    /\ trace.ty = "mesh3d::Lighting"
    /\ ~panicked
    /\ Len(chain) = 2
    /\ chain[1].fn = "fresnel" /\ chain[1].arg = <<F(<<"5">>, "0")>>
    /\ chain[2].fn = "ambient" /\ chain[2].arg = <<Zero>>

\* C24: x, y and z of mesh3d::LightPosition accept a vector exactly when
\* every element is within -100000 to 100000, bounds included: the empty
\* vector is accepted, an offending element aborts the call at whatever
\* position it is, and an accepted vector is stored whole and in order.
C24_LightPositionAcceptsExactlyRange ==
    trace.ty = "mesh3d::LightPosition" =>
        /\ \A i \in DOMAIN chain :
              IF \A k \in DOMAIN chain[i].arg[1] : CoordInRange(chain[i].arg[1][k])
              THEN ~(panicked /\ i = Len(chain))
              ELSE panicked /\ i = Len(chain)
        /\ ~panicked =>
              /\ \A i \in DOMAIN chain :
                    IsLastWrite(i) =>
                        trace.f[SetterOf(chain[i].fn).field] = chain[i].arg
              /\ \A n \in FieldNames(trace.ty) :
                    Len(trace.f[n]) > 0 =>
                        \A k \in DOMAIN trace.f[n][1] : CoordInRange(trace.f[n][1][k])
C24_Witness ==
    /\ trace.ty = "mesh3d::LightPosition"
    /\ Len(chain) = 2
    /\ chain[1].arg = << <<>> >>
    /\ Len(chain[2].arg[1]) = 2
    /\ CoordInRange(chain[2].arg[1][1])
    /\ ~CoordInRange(chain[2].arg[1][2])
    /\ panicked


(***************************************************************************)
(* Frame properties of the trace setters.                                  *)
(***************************************************************************)
\* C25: a setter of Scatter, Mesh3D or Surface changes only the field it
\* targets: every other field of the returned instance, geometry and type
\* included, set or not, is as it was in the instance the setter was
\* called on.
C25_SetterChangesOnlyItsField ==
    [][(trace.ty \in TraceTypes /\ Len(chain') = Len(chain) + 1) =>
          \A n \in FieldNames(trace.ty) \ {SetterOf(chain'[Len(chain')].fn).field} :
              trace'.f[n] = trace.f[n]]_vars
C25_Witness ==
    /\ trace.ty = "Surface"
    /\ Len(chain) = 2
    /\ SetterOf(chain[1].fn).field # SetterOf(chain[2].fn).field
    /\ trace.f[SetterOf(chain[1].fn).field] = <<Stored(SetterOf(chain[1].fn), chain[1].arg[1])>>


(***************************************************************************)
(* Properties of Mesh3D's color setters, checked under SpecMeshColor.      *)
(***************************************************************************)
\* C26: facecolor, vertexcolor and color of a Mesh3D do not interact: in
\* whatever order they are called no call aborts, each of the three fields
\* holds the argument of the last call that targeted it, and every written
\* object carries each field that was set under its own key.
C26_ColorFieldsIndependent ==
    trace.ty = "Mesh3D" =>
        /\ ~panicked
        /\ \A i \in DOMAIN chain :
              IsLastWrite(i) =>
                  LET s  == SetterOf(chain[i].fn)
                      fd == FieldOf(s.field)
                  IN  /\ trace.f[s.field] = <<Stored(s, chain[i].arg[1])>>
                      /\ \A n \in DOMAIN out :
                            HasMember(out[n], fd.key,
                                      serialize_value(fd.ser, Stored(s, chain[i].arg[1])))
        /\ \A name \in {"face_color", "vertex_color", "color"} :
              ~SetterCalled(name) =>
                  /\ trace.f[name] = <<>>
                  /\ \A n \in DOMAIN out : ~HasKey(out[n], FieldOf(name).key)
C26_Witness ==
    /\ trace.ty = "Mesh3D"
    /\ Len(chain) = 3
    /\ chain[1].fn = "color"
    /\ chain[2].fn = "vertexcolor"
    /\ chain[3].fn = "facecolor"
    /\ Len(out) > 0
    /\ HasKey(out[1], "color") /\ HasKey(out[1], "vertexcolor") /\ HasKey(out[1], "facecolor")


(***************************************************************************)
(* Properties of the constructors.                                         *)
(***************************************************************************)
\* C27: with no setter called, the object written for Mesh3D::new(..) has
\* exactly the keys type, x, y, z, i, j and k, and the object written for
\* Surface::new(z) has exactly the keys type and z.
C27_MinimalMesh3DAndSurfaceKeys ==
    chain = <<>> =>
        \A n \in DOMAIN out :
            LET keys == {out[n][m].key : m \in DOMAIN out[n]}
            IN  /\ trace.ty = "Mesh3D" =>
                      Len(out[n]) = 7 /\ keys = {"type", "x", "y", "z", "i", "j", "k"}
                /\ trace.ty = "Surface" =>
                      Len(out[n]) = 2 /\ keys = {"type", "z"}
C27_Witness == trace.ty = "Surface" /\ chain = <<>> /\ Len(out) = MaxSerialize


\* The number of data points of a Scatter or a Mesh3D: the length of x.
NumPoints == Len(given[1])
\* The written objects carry the field under its key with the value v
\* written element by element.
WrittenAsGiven(name, v) ==
    \A n \in DOMAIN out :
        HasMember(out[n], FieldOf(name).key, serialize_value(FieldOf(name).ser, v))

\* C28: lengths and indices are not validated: Scatter::new with x and y of
\* different lengths, Mesh3D::new with coordinate and index vectors of
\* different lengths and with indices beyond the vertices, and the array
\* setters of text, hover text and hover template with a length other than
\* the number of points all succeed, and what was given is stored and
\* written as given.
C28_NoLengthValidation ==
    /\ (trace.ty = "Scatter" /\ Len(given[1]) # Len(given[2])) =>
          /\ ~panicked
          /\ trace.f["x"] = given[1] /\ WrittenAsGiven("x", given[1])
          /\ trace.f["y"] = given[2] /\ WrittenAsGiven("y", given[2])
    /\ trace.ty = "Mesh3D" =>
          /\ ~panicked
          /\ trace.f["x"] = <<given[1]>> /\ WrittenAsGiven("x", given[1])
          /\ trace.f["y"] = <<given[2]>> /\ WrittenAsGiven("y", given[2])
          /\ trace.f["z"] = <<given[3]>> /\ WrittenAsGiven("z", given[3])
          /\ trace.f["i"] = <<given[4]>> /\ WrittenAsGiven("i", given[4])
          /\ trace.f["j"] = <<given[5]>> /\ WrittenAsGiven("j", given[5])
          /\ trace.f["k"] = <<given[6]>> /\ WrittenAsGiven("k", given[6])
    /\ trace.ty \in {"Scatter", "Mesh3D"} =>
          \A c \in DOMAIN chain :
              (/\ chain[c].fn \in {"text_array", "hover_text_array", "hover_template_array"}
               /\ Len(chain[c].arg[1]) # NumPoints
               /\ IsLastWrite(c)) =>
                  LET s   == SetterOf(chain[c].fn)
                      arg == chain[c].arg[1]
                  IN  /\ ~panicked
                      /\ trace.f[s.field] = <<DimVector(arg)>>
                      /\ \A n \in DOMAIN out :
                            HasMember(out[n], FieldOf(s.field).key,
                                      JArr([e1 \in DOMAIN arg |-> JStr(arg[e1])]))
C28_Witness ==
    /\ trace.ty = "Scatter"
    /\ Len(given[1]) = 2 /\ Len(given[2]) = 1
    /\ Len(chain) > 0
    /\ LastCall.fn = "hover_text_array"
    /\ Len(LastCall.arg[1]) = 3
    /\ Len(out) > 0


C30_OnlyBooleanOrString ==
    emitted.t # "none" =>
        /\ emitted.t \in {"bool", "string"}
        /\ emitted.t = "string" =>
              /\ \A i \in DOMAIN emitted.v : emitted.v[i] # Quote
              /\ emitted.v # TextTrue
              /\ emitted.v # TextFalse
        /\ e.kind = "bool" => (emitted.t = "bool" /\ emitted.v = e.val)
C30_Witness ==
    /\ e.kind = "struct"
    /\ \E i \in DOMAIN e.val : e.val[i] = Quote
    /\ emitted.t = "string"
    /\ Len(emitted.v) = Len(e.val) - 2

=============================================================================
